---- MODULE Spec2Model ----
(***************************************************************************)
(* Model of the patent search / seed-recall tooling:                       *)
(*   src/recall_analyzer.py   RecallAnalyzer, normalize_patent_number      *)
(*   src/patent_analyzer.py   PatentQueryGenerator                         *)
(*   src/patent_downloader.py GooglePatentsXHRDownloader                   *)
(*                                                                         *)
(* Strings whose characters matter (patent numbers) are sequences of       *)
(* one-character strings.  URLs are sequences of tokens whose first token  *)
(* tells whether the link is absolute.                                     *)
(***************************************************************************)
EXTENDS Integers, Sequences, FiniteSets, TLC

VARIABLES
    pc,               \* position of the running coroutine / harness
    nx,               \* normalisation harness: first string (target)
    ny,               \* normalisation harness: second string (identifier)
    nres,             \* normalisation harness: results of the last step
    evaluator,        \* "RecallAnalyzer" | "PatentQueryGenerator"
    full_recall,      \* exhaustive mode flag handed to search_and_download
    max_results,      \* per query limit
    analysis_target,  \* target_patent argument of execute_searches
    target_attr,      \* downloader._target_patent (Unset until assigned)
    queries,          \* queries_data["search_queries"]
    qi,               \* 1-based index of the query being executed (loop variable i)
    search_results,   \* list built by execute_searches
    q,                \* local frame of the running search_and_download
    fa,               \* local frame of the running _fetch_all_results
    report,           \* value returned by calculate_seed_recall
    hist,             \* per query: what the site did and what the code did (history)
    site,             \* the range of behaviours the outside world shows: "lean" | "rich"
    open,             \* how many browsers, contexts and HTTP clients are open
    arg,              \* function harnesses: the argument of the call
    ret               \* function harnesses: what the call gave

vars == <<pc, nx, ny, nres, evaluator, full_recall, max_results, analysis_target,
          target_attr, queries, qi, search_results, q, fa, report, hist, site, open,
          arg, ret>>

normVars == <<nx, ny, nres>>
callVars == <<arg, ret>>
batchVars == <<evaluator, full_recall, max_results, analysis_target, target_attr,
               queries, qi, search_results, report, hist, site, open>>

\* Python's None, for values of each kind the model compares
None == "None"              \* where the other values are strings
NoneStr == <<"<None>">>     \* where the other values are character sequences
NoneInt == -1               \* where the other values are natural numbers
Unset == <<"<unset>">>      \* an attribute that was never assigned

(***************************************************************************)
(* Characters and strings                                                  *)
(***************************************************************************)
\* str.upper() on the characters of the model's alphabet
LowerSeq == <<"a", "b", "c", "d", "e", "f", "g", "h", "i", "j", "k", "l",
              "m", "n", "o", "p", "q", "r", "s", "t", "u", "v", "w", "x", "y", "z">>
UpperSeq == <<"A", "B", "C", "D", "E", "F", "G", "H", "I", "J", "K", "L",
              "M", "N", "O", "P", "Q", "R", "S", "T", "U", "V", "W", "X", "Y", "Z">>

LowerChars == {LowerSeq[k] : k \in 1..Len(LowerSeq)}
UpperChars == {UpperSeq[k] : k \in 1..Len(UpperSeq)}

\* characters matched by the regex class \s
Whitespace == {" ", "\t"}

upper_char(c) ==
    IF c \in LowerChars
    THEN UpperSeq[CHOOSE k \in 1..Len(LowerSeq) : LowerSeq[k] = c]
    ELSE c

upper(s) == [k \in 1..Len(s) |-> upper_char(s[k])]

\* str.lower()
lower_char(c) ==
    IF c \in UpperChars
    THEN LowerSeq[CHOOSE k \in 1..Len(UpperSeq) : UpperSeq[k] = c]
    ELSE c

lower(s) == [k \in 1..Len(s) |-> lower_char(s[k])]

\* str.title(): a letter that follows no letter is upper-cased, every other
\* letter lower-cased
str_title(s) ==
    [k \in 1..Len(s) |->
        IF k = 1 \/ s[k - 1] \notin (LowerChars \cup UpperChars)
        THEN upper_char(s[k]) ELSE lower_char(s[k])]

\* str.replace(ch, "")
replace_char(s, ch) == SelectSeq(s, LAMBDA c : c # ch)

\* re.sub(r'[\s,\-]', '', s)
re_sub_strip(s) == SelectSeq(s, LAMBDA c : c \notin (Whitespace \cup {",", "-"}))

\* a mutation of normalize_patent_number: the character class lacks \s
normalize_patent_number_nows(patent_number) ==
    IF patent_number = NoneStr \/ patent_number = <<>>
    THEN <<>>
    ELSE upper(SelectSeq(patent_number, LAMBDA c : c \notin {" ", ",", "-"}))

\* normalize_patent_number (recall_analyzer.py, patent_analyzer.py)
normalize_patent_number(patent_number) ==
    IF patent_number = NoneStr \/ patent_number = <<>>
    THEN <<>>
    ELSE upper(re_sub_strip(patent_number))

\* the inline normalisation of _fetch_all_results:
\*   s.upper().replace(" ", "").replace(",", "").replace("-", "")
fetch_all_normalize(s) ==
    replace_char(replace_char(replace_char(upper(s), " "), ","), "-")

\* the early-termination test of _fetch_all_results for one identifier
early_termination_match(target_patent, publication_number) ==
    /\ publication_number # NoneStr
    /\ publication_number # <<>>
    /\ fetch_all_normalize(publication_number) = fetch_all_normalize(target_patent)


(***************************************************************************)
(* Result records and the extraction tiers                                 *)
(***************************************************************************)
\* GOOGLE_PATENTS_ORIGIN, as the leading token of an absolute URL
GOOGLE_PATENTS_ORIGIN == "https://patents.google.com"

\* GOOGLE_PATENTS_ORIGIN + "/"
GOOGLE_PATENTS_ROOT == "https://patents.google.com/"

\* str.startswith("http") on a URL given as tokens
startswith_http(href) ==
    href # <<>> /\ Head(href) \in {GOOGLE_PATENTS_ORIGIN, "http://other.example"}

\* str.lstrip("/")
RECURSIVE lstrip_slash(_)
lstrip_slash(u) ==
    IF u # <<>> /\ Head(u) = "/" THEN lstrip_slash(Tail(u)) ELSE u

\* str.strip(): leading and trailing whitespace removed
RECURSIVE lstrip(_)
lstrip(s) == IF s # <<>> /\ Head(s) \in Whitespace THEN lstrip(Tail(s)) ELSE s

RECURSIVE rstrip(_)
rstrip(s) ==
    IF s # <<>> /\ s[Len(s)] \in Whitespace THEN rstrip(SubSeq(s, 1, Len(s) - 1)) ELSE s

strip(s) == rstrip(lstrip(s))

\* a or b, for character sequences (the empty one is falsy)
or_else(a, b) == IF a # <<>> /\ a # NoneStr THEN a ELSE b

PatentSummary(title, publication_number, detail_url) ==
    [title |-> title, publication_number |-> publication_number, detail_url |-> detail_url]

\* one <article> of a result page: its "h3 a" anchor (text, href) and the
\* text of its "h4 a" link; pub = NoneStr when there is no such link
\* _parse_results_from_html on the articles of a document
RECURSIVE parse_results_from_html(_)
parse_results_from_html(articles) ==
    IF articles = <<>> THEN <<>>
    ELSE LET article == Head(articles)
             rest == parse_results_from_html(Tail(articles))
             title == strip(article.title)
             href == article.href
             detail_url == IF href # <<>> /\ ~startswith_http(href)
                           THEN <<GOOGLE_PATENTS_ORIGIN>> \o href
                           ELSE href
             pub == IF article.pub # NoneStr /\ article.pub # <<>>
                    THEN strip(article.pub) ELSE NoneStr
         IN IF ~article.anchor THEN rest
            ELSE IF title # <<>> /\ detail_url # <<>>
                 THEN <<PatentSummary(title, pub, detail_url)>> \o rest
                 ELSE rest

\* _parse_results_from_dom on the articles of the live page (lines 579-613):
\* an article with no "h3 a" anchor or with no href is skipped, the title
\* falls back to the publication number
RECURSIVE parse_results_from_dom(_)
parse_results_from_dom(articles) ==
    IF articles = <<>> THEN <<>>
    ELSE LET article == Head(articles)
             rest == parse_results_from_dom(Tail(articles))
             title == strip(article.title)
             href == article.href
             detail_url == IF ~startswith_http(href)
                           THEN <<GOOGLE_PATENTS_ORIGIN>> \o href
                           ELSE href
             pub == IF article.pub # NoneStr /\ article.pub # <<>>
                    THEN strip(article.pub) ELSE NoneStr
         IN IF ~article.anchor \/ href = <<>> THEN rest
            ELSE <<PatentSummary(or_else(title, or_else(pub, <<>>)), pub, detail_url)>>
                 \o rest

\* the items of results.cluster[].result[] turned into records
RECURSIVE records_of_items(_)
records_of_items(items) ==
    IF items = <<>> THEN <<>>
    ELSE LET item == Head(items)
             rest == records_of_items(Tail(items))
             pub == item.publication_number
             title == strip(item.title)
         IN IF item.id = <<>> THEN rest
            ELSE <<PatentSummary(or_else(title, or_else(pub, <<>>)), pub,
                                 <<GOOGLE_PATENTS_ORIGIN, "/">> \o lstrip_slash(item.id))>>
                 \o rest

\* A response body.  kind: "empty" (None or ""), "json" (an object that
\* decodes and has the expected shape: user_error is the error marker of
\* results, total its total_num_results, items its cluster results),
\* "badjson" (starts with "{" but does not decode, or decodes to a shape on
\* which the traversal raises, such as a results node that is no object),
\* "shapeless" (an object that decodes but has no results node: the
\* traversal finds no cluster and no total), "html" (any other text).
\* articles are the <article> elements the text shows when read as markup.
Payload(kind, user_error, total, items, articles) ==
    [kind |-> kind, user_error |-> user_error, total |-> total, items |-> items,
     articles |-> articles]

\* a mutation of parse_results_from_xhr: a body that fails in the JSON
\* branch gives no record instead of going to the HTML parser
parse_results_from_xhr_nofallback(content) ==
    CASE content.kind = "empty" ->
            [results |-> <<>>, total |-> NoneInt, html |-> FALSE, raised |-> FALSE]
      [] content.kind = "json" ->
            [results |-> records_of_items(content.items), total |-> content.total,
             html |-> FALSE, raised |-> FALSE]
      [] content.kind = "shapeless" ->
            [results |-> <<>>, total |-> NoneInt, html |-> FALSE, raised |-> FALSE]
      [] content.kind = "badjson" ->
            [results |-> <<>>, total |-> NoneInt, html |-> FALSE, raised |-> FALSE]
      [] OTHER ->
            [results |-> parse_results_from_html(content.articles), total |-> NoneInt,
             html |-> TRUE, raised |-> FALSE]

\* _parse_results_from_xhr: (results, total_results); html tells whether
\* the body was handed to _parse_results_from_html, raised whether the call
\* raised (no path of it does)
parse_results_from_xhr(content) ==
    CASE content.kind = "empty" ->
            [results |-> <<>>, total |-> NoneInt, html |-> FALSE, raised |-> FALSE]
      [] content.kind = "json" ->
            [results |-> records_of_items(content.items), total |-> content.total,
             html |-> FALSE, raised |-> FALSE]
      [] content.kind = "shapeless" ->
            [results |-> <<>>, total |-> NoneInt, html |-> FALSE, raised |-> FALSE]
      [] OTHER ->
            [results |-> parse_results_from_html(content.articles), total |-> NoneInt,
             html |-> TRUE, raised |-> FALSE]

(***************************************************************************)
(* Bounds                                                                  *)
(***************************************************************************)
\* longest string the normalisation harness enumerates
MaxLen == 2

\* alphabet of the normalisation harness: a lower-case and an upper-case
\* letter, two kinds of whitespace, comma and hyphen
NormAlphabet == {"a", "A", " ", "\t", ",", "-"}

RECURSIVE StringsUpTo(_)
StringsUpTo(n) ==
    IF n = 0 THEN {<<>>}
    ELSE LET shorter == StringsUpTo(n - 1)
         IN shorter \cup {Append(s, c) : s \in {t \in shorter : Len(t) = n - 1},
                                         c \in NormAlphabet}

NormStrings == StringsUpTo(MaxLen)

\* Scenario A of the specification
ScenarioATarget == <<"U", "S", " ", "8", ",", "7", "7", "1", ",", "6", "3", "7", " ", "B", "2">>
ScenarioAIdentifier == <<"U", "S", "8", "7", "7", "1", "6", "3", "7", "B", "2">>

(***************************************************************************)
(* Normalisation harness: the two normalisations applied to bounded inputs *)
(***************************************************************************)
IdleFrame == [state |-> "idle"]

NoNormResult == [once |-> <<>>, twice |-> <<>>, recall_equal |-> FALSE, early_match |-> FALSE]

NoReport == [state |-> "none"]

\* no browser, context or client is open
NoneOpen == [browser |-> 0, context |-> 0, client |-> 0]

\* the harness variables of a run that calls no function on its own
CallIdle == arg = IdleFrame /\ ret = IdleFrame

\* the batch variables of a harness that runs no batch
BatchIdle ==
    /\ evaluator = None /\ full_recall = FALSE /\ max_results = 0
    /\ analysis_target = NoneStr /\ target_attr = Unset
    /\ queries = <<>> /\ qi = 0 /\ search_results = <<>>
    /\ report = NoReport
    /\ hist = <<>>
    /\ site = "rich"
    /\ open = NoneOpen

NormInit ==
    /\ pc = "norm_ready"
    /\ nx \in NormStrings \cup {ScenarioATarget}
    /\ ny \in NormStrings \cup {ScenarioAIdentifier}
    /\ nres = NoNormResult
    /\ CallIdle
    /\ BatchIdle
    /\ q = IdleFrame /\ fa = IdleFrame

\* normalize_patent_number applied once and twice to nx
NormalizeStep ==
    /\ pc = "norm_ready"
    /\ nres' = [nres EXCEPT !.once  = normalize_patent_number(nx),
                            !.twice = normalize_patent_number(normalize_patent_number(nx))]
    /\ pc' = "normalized"
    /\ UNCHANGED <<nx, ny, callVars, batchVars, q, fa>>

\* the two equality tests on (target nx, identifier ny): the one of
\* calculate_seed_recall and the one of _fetch_all_results
CompareStep ==
    /\ pc = "normalized"
    /\ nres' = [nres EXCEPT
                  !.recall_equal = (normalize_patent_number(nx) = normalize_patent_number(ny)),
                  !.early_match  = (nx # <<>> /\ early_termination_match(nx, ny))]
    /\ pc' = "compared"
    /\ UNCHANGED <<nx, ny, callVars, batchVars, q, fa>>

NormNext == NormalizeStep \/ CompareStep

SpecNormalize == NormInit /\ [][NormNext]_vars

StrippedChars == Whitespace \cup {",", "-"}

\* C4: normalising is idempotent, and the normalised form has no whitespace,
\* comma, hyphen or lower-case letter.
C4_NormalizeIdempotent ==
    pc \in {"normalized", "compared"} =>
        /\ nres.twice = nres.once
        /\ \A k \in 1..Len(nres.once) :
              nres.once[k] \notin (StrippedChars \cup LowerChars)

\* C4 witness: an input with a character to strip and a lower-case letter
\* has been normalised to something else
C4_Witness ==
    /\ pc = "normalized"
    /\ \E k \in 1..Len(nx) : nx[k] = "\t"
    /\ \E k \in 1..Len(nx) : nx[k] = "a"
    /\ nres.once = <<"A">>

\* C5 (original claim): for a target and an identifier that are both
\* present, the early-termination test of pagination gives the same verdict
\* as equality of the two normalize_patent_number values.
C5_SameVerdict ==
    (pc = "compared" /\ nx # <<>> /\ ny # <<>>) =>
        (nres.early_match <=> nres.recall_equal)

(***************************************************************************)
(* _fetch_all_results: exhaustive pagination, one action per page request  *)
(***************************************************************************)
\* page_size of _fetch_all_results
page_size == 100

\* largest total_count the pagination harness enumerates
MaxTotal == 250

Min(a, b) == IF a < b THEN a ELSE b

\* identifiers and records the site can answer with
IdUS1 == <<"U", "S", "1">>
IdUS1Lower == <<"u", "s", "-", "1">>
IdUS1Tab == <<"U", "S", "\t", "1">>
IdEP2 == <<"E", "P", "2">>

Item(path, pub) ==
    [id |-> <<path>>, publication_number |-> pub, title |-> <<"T">>]

JsonPayload(total, items) == Payload("json", FALSE, total, items, <<>>)

\* what one page request of the pagination can meet: an exception, an HTTP
\* error status, or a body
RichPageResponses ==
    { [kind |-> "raise", body |-> Payload("empty", FALSE, NoneInt, <<>>, <<>>)],
      [kind |-> "status_error", body |-> Payload("empty", FALSE, NoneInt, <<>>, <<>>)],
      [kind |-> "ok", body |-> JsonPayload(0, <<>>)],
      [kind |-> "ok", body |-> JsonPayload(250, <<Item("patent/EP2/en", IdEP2)>>)],
      [kind |-> "ok", body |-> JsonPayload(250, <<Item("patent/N3/en", NoneStr),
                                                  Item("patent/US1/en", IdUS1Lower)>>)],
      [kind |-> "ok", body |-> JsonPayload(250, <<Item("patent/US1/en", IdUS1Tab)>>)] }

\* the responses a page request meets against a lean site
LeanPageResponses ==
    { [kind |-> "status_error", body |-> Payload("empty", FALSE, NoneInt, <<>>, <<>>)],
      [kind |-> "ok", body |-> JsonPayload(250, <<Item("patent/N3/en", NoneStr),
                                                  Item("patent/US1/en", IdUS1Lower)>>)] }

PageResponses(profile) == IF profile = "rich" THEN RichPageResponses ELSE LeanPageResponses

\* a mutation of fetch_all_enter: the page count is rounded down
fetch_all_enter_floor(total_count, target_patent) ==
    [state |-> "running",
     total_count |-> total_count,
     target_patent |-> target_patent,
     page |-> 0,
     max_pages |-> total_count \div page_size,
     all_results |-> <<>>,
     pages_fetched |-> 0,
     requests |-> <<>>,
     pages |-> <<>>,
     outcome |-> "running"]

\* the frame of _fetch_all_results on entry (lines 728-744)
fetch_all_enter(total_count, target_patent) ==
    [state |-> "running",
     total_count |-> total_count,
     target_patent |-> target_patent,
     page |-> 0,
     max_pages |-> (total_count + page_size - 1) \div page_size,
     all_results |-> <<>>,
     pages_fetched |-> 0,
     requests |-> <<>>,
     pages |-> <<>>,
     outcome |-> "running"]

\* the early-termination test after a page (lines 768-775)
\* a mutation of request_num: every page asks for a full page
request_num_full(total_count, start_idx) == page_size

\* line 749: min(page_size, total_count - start_idx)
request_num(total_count, start_idx) == Min(page_size, total_count - start_idx)

\* a mutation of page_matches_target: any page that holds a record ends
\* the pagination
page_matches_target_any(target_patent, page_results) ==
    /\ target_patent # NoneStr
    /\ target_patent # <<>>
    /\ page_results # <<>>

\* lines 767-775: whether a record of the page matches the target
page_matches_target(target_patent, page_results) ==
    /\ target_patent # NoneStr
    /\ target_patent # <<>>
    /\ \E k \in 1..Len(page_results) :
          early_termination_match(target_patent, page_results[k].publication_number)

\* a mutation of fetch_page_step: a failed page request discards the
\* records of the pages before it
fetch_page_step_discard(f, resp) ==
    LET start_idx == f.page * page_size
        num == request_num(f.total_count, start_idx)
        issued == Append(f.requests, [start |-> start_idx, num |-> num])
    IN IF resp.kind = "ok"
       THEN LET page_results == parse_results_from_xhr(resp.body).results
                collected == f.all_results \o page_results
                logged == Append(f.pages, [kind |-> "ok", records |-> page_results])
            IN IF page_matches_target(f.target_patent, page_results)
               THEN [f EXCEPT !.requests = issued, !.all_results = collected,
                              !.pages_fetched = @ + 1, !.pages = logged,
                              !.state = "returned", !.outcome = "early"]
               ELSE [f EXCEPT !.requests = issued, !.all_results = collected,
                              !.pages_fetched = @ + 1, !.pages = logged,
                              !.page = @ + 1]
       ELSE [f EXCEPT !.requests = issued, !.all_results = <<>>,
                      !.pages = Append(@, [kind |-> resp.kind, records |-> <<>>]),
                      !.state = "returned", !.outcome = "error"]

\* one iteration of the page loop (lines 746-786) on response resp.
\* requests logs every client.get issued; pages logs what each request
\* brought: the parsed records of the page, or the kind of failure.
fetch_page_step(f, resp) ==
    LET start_idx == f.page * page_size
        num == request_num(f.total_count, start_idx)
        issued == Append(f.requests, [start |-> start_idx, num |-> num])
    IN IF resp.kind = "ok"
       THEN LET page_results == parse_results_from_xhr(resp.body).results
                collected == f.all_results \o page_results
                logged == Append(f.pages, [kind |-> "ok", records |-> page_results])
            IN IF page_matches_target(f.target_patent, page_results)
               THEN [f EXCEPT !.requests = issued, !.all_results = collected,
                              !.pages_fetched = @ + 1, !.pages = logged,
                              !.state = "returned", !.outcome = "early"]
               ELSE [f EXCEPT !.requests = issued, !.all_results = collected,
                              !.pages_fetched = @ + 1, !.pages = logged,
                              !.page = @ + 1]
       ELSE [f EXCEPT !.requests = issued,
                      !.pages = Append(@, [kind |-> resp.kind, records |-> <<>>]),
                      !.state = "returned", !.outcome = "error"]

FetchPage ==
    /\ fa.state = "running"
    /\ fa.page < fa.max_pages
    /\ \E resp \in PageResponses(site) : fa' = fetch_page_step(fa, resp)
    /\ UNCHANGED <<pc, normVars, callVars, batchVars, q>>

\* the loop has run out of pages: line 788-789
FetchLoopEnd ==
    /\ fa.state = "running"
    /\ fa.page >= fa.max_pages
    /\ fa' = [fa EXCEPT !.state = "returned",
                        !.outcome = IF @ = "running" THEN "exhausted" ELSE @]
    /\ UNCHANGED <<pc, normVars, callVars, batchVars, q>>

PaginationTargets == {NoneStr, <<>>, IdUS1}

PaginationInit ==
    /\ pc = "fetch_all"
    /\ \E total_count \in 0..MaxTotal, target_patent \in PaginationTargets :
          fa = fetch_all_enter(total_count, target_patent)
    /\ nx = <<>> /\ ny = <<>> /\ nres = NoNormResult
    /\ CallIdle
    /\ BatchIdle
    /\ q = IdleFrame

PaginationNext == FetchPage \/ FetchLoopEnd

SpecPagination == PaginationInit /\ [][PaginationNext]_vars

\* ceil(a / b), stated without the code's rounding trick
CeilDiv(a, b) == CHOOSE n \in 0..a : n * b >= a /\ (n = 0 \/ (n - 1) * b < a)

FetchNoPageError == \A k \in 1..Len(fa.pages) : fa.pages[k].kind = "ok"

\* C8: absent early termination and page errors, exhaustive pagination
\* issues exactly ceil(knownTotal / pageSize) page requests.
C8_PageCount ==
    (fa.state = "returned" /\ fa.outcome # "early" /\ FetchNoPageError) =>
        Len(fa.requests) = CeilDiv(fa.total_count, page_size)

\* C8 witness: a total that is no multiple of the page size, fully paged
C8_Witness ==
    /\ fa.state = "returned" /\ fa.outcome # "early" /\ FetchNoPageError
    /\ fa.total_count = 250
    /\ Len(fa.requests) = 3

\* the normalisation rule as the specification words it: strip whitespace,
\* commas and hyphens, then uppercase
RuleNormalize(s) ==
    LET kept == SelectSeq(s, LAMBDA c : c \notin StrippedChars)
    IN [k \in 1..Len(kept) |-> upper_char(kept[k])]

\* the records of a page hold an identifier equal to the target under the
\* normalisation rule
RuleMatch(target, records) ==
    \E k \in 1..Len(records) :
        /\ records[k].publication_number # NoneStr
        /\ records[k].publication_number # <<>>
        /\ RuleNormalize(records[k].publication_number) = RuleNormalize(target)

TargetSupplied(f) == f.target_patent # NoneStr /\ f.target_patent # <<>>

\* C9 (original claim): with an early-termination id supplied, no page is
\* requested after the first page holding an identifier equal to the target
\* after normalisation, and that page's records are in the result.
C9_EarlyTermination ==
    (fa.state # "idle" /\ TargetSupplied(fa)) =>
        \A k \in 1..Len(fa.pages) :
            RuleMatch(fa.target_patent, fa.pages[k].records) =>
                /\ Len(fa.requests) = k
                /\ \A j \in 1..Len(fa.pages[k].records) :
                      \E m \in 1..Len(fa.all_results) :
                          fa.all_results[m] = fa.pages[k].records[j]

(***************************************************************************)
(* calculate_seed_recall                                                   *)
(***************************************************************************)
RECURSIVE Gcd(_, _)
Gcd(a, b) == IF b = 0 THEN a ELSE Gcd(b, a % b)

\* a / b for b > 0, as the rational number in lowest terms
Divide(a, b) == LET g == Gcd(a, b) IN [num |-> a \div g, den |-> b \div g]

\* the number 0
Zero == [num |-> 0, den |-> 1]

\* [normalize_patent_number(p) for p in found_patents if p]
RECURSIVE normalized_found_of(_)
normalized_found_of(found_patents) ==
    IF found_patents = <<>> THEN <<>>
    ELSE LET p == Head(found_patents)
             rest == normalized_found_of(Tail(found_patents))
         IN IF p # <<>> /\ p # NoneStr THEN <<normalize_patent_number(p)>> \o rest ELSE rest

\* x in list
In(x, list) == \E k \in 1..Len(list) : list[k] = x

\* a mutation of query_recall: the identifiers are compared as extracted
query_recall_raw(ev, normalized_original, result) ==
    IF ~result.success
    THEN [query_index |-> result.query_index, found |-> FALSE,
          reason |-> IF ev = "RecallAnalyzer" /\ result.error # None
                     THEN result.error ELSE "Query failed",
          total_results |-> NoneInt, parsed_results |-> NoneInt]
    ELSE [query_index |-> result.query_index,
          found |-> In(normalized_original, result.found_patents),
          reason |-> None,
          total_results |-> result.total_results,
          parsed_results |-> result.parsed_results]

\* the entry of query_details for one search result (lines 172-198)
query_recall(ev, normalized_original, result) ==
    IF ~result.success
    THEN [query_index |-> result.query_index, found |-> FALSE,
          reason |-> IF ev = "RecallAnalyzer" /\ result.error # None
                     THEN result.error ELSE "Query failed",
          total_results |-> NoneInt, parsed_results |-> NoneInt]
    ELSE [query_index |-> result.query_index,
          found |-> In(normalized_original, normalized_found_of(result.found_patents)),
          reason |-> None,
          total_results |-> result.total_results,
          parsed_results |-> result.parsed_results]

CountWhere(list, P(_)) == Cardinality({k \in 1..Len(list) : P(list[k])})

\* a mutation of calculate_seed_recall: the rate is taken over the
\* successful queries instead of all queries
calculate_seed_recall_oversuccessful(ev, original_patent_number, results) ==
    LET normalized_original == normalize_patent_number(original_patent_number)
        query_recalls == [k \in 1..Len(results) |->
                              query_recall(ev, normalized_original, results[k])]
        found_in_queries == CountWhere(query_recalls, LAMBDA d : d.found)
        total_queries == Len(results)
        successful_queries == CountWhere(results, LAMBDA r : r.success)
    IN [original_patent |-> original_patent_number,
        normalized_patent |-> normalized_original,
        total_queries |-> total_queries,
        successful_queries |-> successful_queries,
        success_rate |-> IF total_queries > 0
                         THEN Divide(successful_queries, total_queries) ELSE Zero,
        seed_recall_rate |-> IF successful_queries > 0
                             THEN Divide(found_in_queries, successful_queries) ELSE Zero,
        queries_found_patent |-> found_in_queries,
        query_details |-> query_recalls]

\* a mutation of calculate_seed_recall: the failed queries get no entry in
\* query_details
calculate_seed_recall_skipfailed(ev, original_patent_number, results) ==
    LET normalized_original == normalize_patent_number(original_patent_number)
        succeeded == SelectSeq(results, LAMBDA r : r.success)
        query_recalls == [k \in 1..Len(succeeded) |->
                              query_recall(ev, normalized_original, succeeded[k])]
        found_in_queries == CountWhere(query_recalls, LAMBDA d : d.found)
        total_queries == Len(results)
        successful_queries == CountWhere(results, LAMBDA r : r.success)
    IN [original_patent |-> original_patent_number,
        normalized_patent |-> normalized_original,
        total_queries |-> total_queries,
        successful_queries |-> successful_queries,
        success_rate |-> IF total_queries > 0
                         THEN Divide(successful_queries, total_queries) ELSE Zero,
        seed_recall_rate |-> IF total_queries > 0
                             THEN Divide(found_in_queries, total_queries) ELSE Zero,
        queries_found_patent |-> found_in_queries,
        query_details |-> query_recalls]

\* calculate_seed_recall (the averages of the result counts are left out)
calculate_seed_recall(ev, original_patent_number, results) ==
    LET normalized_original == normalize_patent_number(original_patent_number)
        query_recalls == [k \in 1..Len(results) |->
                              query_recall(ev, normalized_original, results[k])]
        found_in_queries == CountWhere(query_recalls, LAMBDA d : d.found)
        total_queries == Len(results)
        successful_queries == CountWhere(results, LAMBDA r : r.success)
    IN [original_patent |-> original_patent_number,
        normalized_patent |-> normalized_original,
        total_queries |-> total_queries,
        successful_queries |-> successful_queries,
        success_rate |-> IF total_queries > 0
                         THEN Divide(successful_queries, total_queries) ELSE Zero,
        seed_recall_rate |-> IF total_queries > 0
                             THEN Divide(found_in_queries, total_queries) ELSE Zero,
        queries_found_patent |-> found_in_queries,
        query_details |-> query_recalls]

\* analyze_recall, step 2: the report is computed from the search results
CalculateSeedRecall ==
    /\ pc = "calc"
    /\ report' = calculate_seed_recall(evaluator, analysis_target, search_results)
    /\ pc' = "done"
    /\ UNCHANGED <<normVars, callVars, evaluator, full_recall, max_results, analysis_target,
                   target_attr, queries, qi, search_results, q, fa, hist, site, open>>

(***************************************************************************)
(* Recall harness: calculate_seed_recall on bounded lists of the entries   *)
(* execute_searches produces                                               *)
(***************************************************************************)
\* longest found_patents list of an entry
MaxFound == 2

\* longest list of search results
MaxEntries == 2

Evaluators == {"RecallAnalyzer", "PatentQueryGenerator"}

RecallTargets == {ScenarioATarget, IdUS1}

FoundIds == {ScenarioAIdentifier, IdUS1Lower, IdUS1Tab}

RECURSIVE ListsUpTo(_, _)
ListsUpTo(S, n) ==
    IF n = 0 THEN {<<>>}
    ELSE LET shorter == ListsUpTo(S, n - 1)
         IN shorter \cup {Append(l, x) : l \in {t \in shorter : Len(t) = n - 1}, x \in S}

\* the dict execute_searches appends for a query that returned
success_entry(i, total_count, parsed, found_patents) ==
    [query_index |-> i, query |-> i, success |-> TRUE, total_results |-> total_count,
     parsed_results |-> parsed, found_patents |-> found_patents, error |-> None]

\* the dict execute_searches appends for a query that raised
failure_entry(i, detail) ==
    [query_index |-> i, query |-> i, success |-> FALSE, total_results |-> NoneInt,
     parsed_results |-> 0, found_patents |-> <<>>, error |-> detail]

RecallEntries(i) ==
    {failure_entry(i, "boom")}
       \cup {success_entry(i, NoneInt, Len(f), f) : f \in ListsUpTo(FoundIds, MaxFound)}

RecallInit ==
    /\ pc = "calc"
    /\ evaluator \in Evaluators
    /\ analysis_target \in RecallTargets
    /\ \E n \in 0..MaxEntries :
          /\ queries = [k \in 1..n |-> k]
          /\ qi = n
          /\ search_results \in {l \in [1..n -> UNION {RecallEntries(k) : k \in 1..n}] :
                                    \A k \in 1..n : l[k].query_index = k}
    /\ full_recall = FALSE /\ max_results = 10 /\ target_attr = Unset
    /\ report = NoReport /\ hist = <<>> /\ site = "rich" /\ open = NoneOpen
    /\ nx = <<>> /\ ny = <<>> /\ nres = NoNormResult
    /\ CallIdle
    /\ q = IdleFrame /\ fa = IdleFrame

RecallNext == CalculateSeedRecall

SpecRecall == RecallInit /\ [][RecallNext]_vars

\* C2: recallRate = queriesThatFoundTarget / totalQueries, and exactly 0
\* when there is no query; the two counts are those of the result list.
C2_RecallRate ==
    pc = "done" =>
        /\ report.total_queries = Len(search_results)
        /\ report.queries_found_patent =
              Cardinality({k \in 1..Len(report.query_details) : report.query_details[k].found})
        /\ report.seed_recall_rate.den > 0
        /\ report.seed_recall_rate.num * report.total_queries
              = report.queries_found_patent * report.seed_recall_rate.den
        /\ report.total_queries = 0 => report.seed_recall_rate = Zero

\* C2 witness: two queries, one failed and one that found the target
C2_Witness ==
    /\ pc = "done"
    /\ report.total_queries = 2
    /\ report.queries_found_patent = 1
    /\ \E k \in 1..2 : ~search_results[k].success
    /\ report.seed_recall_rate = [num |-> 1, den |-> 2]

\* C3: for a successful query, found holds exactly when some extracted
\* identifier equals the target after the normalisation rule; Scenario A
\* gives found.
C3_RecallMatching ==
    pc = "done" =>
        /\ \A k \in 1..Len(search_results) :
              search_results[k].success =>
                 (report.query_details[k].found <=>
                    \E j \in 1..Len(search_results[k].found_patents) :
                        RuleNormalize(search_results[k].found_patents[j])
                           = RuleNormalize(analysis_target))
        /\ \A k \in 1..Len(search_results) :
              (/\ search_results[k].success
               /\ analysis_target = ScenarioATarget
               /\ search_results[k].found_patents = <<ScenarioAIdentifier>>) =>
                 (/\ report.query_details[k].found
                  /\ report.normalized_patent = ScenarioAIdentifier)

\* C3 witness: Scenario A has been evaluated
C3_Witness ==
    /\ pc = "done"
    /\ analysis_target = ScenarioATarget
    /\ Len(search_results) >= 1
    /\ search_results[1].success
    /\ search_results[1].found_patents = <<ScenarioAIdentifier>>
    /\ report.query_details[1].found

(***************************************************************************)
(* The batch: execute_searches driving search_and_download per query       *)
(***************************************************************************)
\* most queries in a batch
MaxQueries == 2

\* largest max_results a run is configured with
MaxResults == 2

BatchTargets == {IdUS1}

NoBody == Payload("empty", FALSE, NoneInt, <<>>, <<>>)

\* Scenario B: {"results":{"user_error":"invalid argument: query syntax error"}}
UserErrorJson == Payload("json", TRUE, NoneInt, <<>>, <<>>)

\* Scenario C: {"results":{"total_num_results":0,"cluster":[]}}
ZeroJson == JsonPayload(0, <<>>)

ItemEP2 == Item("patent/EP2/en", IdEP2)
ItemUS1 == Item("patent/US1/en", IdUS1Lower)

Article(path, pub) ==
    [anchor |-> TRUE, title |-> <<"T">>, href |-> <<"/", path>>, pub |-> pub]

\* what the browser can hand back as xhr_text from _capture_xhr_request
XhrTexts(profile) ==
    IF profile = "rich"
    THEN {NoBody, UserErrorJson, ZeroJson,
          JsonPayload(150, <<ItemEP2>>), JsonPayload(150, <<ItemEP2, ItemUS1>>)}
    ELSE {NoBody, JsonPayload(100, <<ItemEP2, ItemUS1>>)}

\* whether _capture_xhr_request captured a request
Captures(profile) == IF profile = "rich" THEN BOOLEAN ELSE {TRUE}

\* the articles of the markup a page can show
HtmlDocs(profile) ==
    IF profile = "rich" THEN {<<>>, <<Article("patent/EP2/en", IdEP2)>>} ELSE {<<>>}

\* what the replay of the captured request can meet
ReplayResponses(profile) ==
    IF profile = "rich"
    THEN { [kind |-> "raise", body |-> NoBody],
           [kind |-> "status_error", body |-> NoBody],
           [kind |-> "ok", body |-> UserErrorJson],
           [kind |-> "ok", body |-> ZeroJson],
           [kind |-> "ok", body |-> JsonPayload(150, <<ItemEP2>>)] }
    ELSE { [kind |-> "raise", body |-> NoBody],
           [kind |-> "ok", body |-> JsonPayload(100, <<ItemEP2>>)] }

\* records the paging of lines 920-1138 can bring in
PagingRecords ==
    { PatentSummary(<<"T">>, NoneStr, <<GOOGLE_PATENTS_ORIGIN, "/", "patent/N3/en">>),
      PatentSummary(<<"T">>, IdEP2, <<GOOGLE_PATENTS_ORIGIN, "/", "patent/EP2/en">>) }

\* the locals of search_and_download when the try block is entered; the
\* frame keeps xhr_text and page_html until their last use.  structured
\* holds the records _parse_results_from_xhr took from a JSON body in the
\* first pass; html_invoked and dom_invoked tell whether
\* _parse_results_from_html and _parse_results_from_dom ran for the query
query_frame ==
    [state |-> "running", captured |-> FALSE, xhr_text |-> NoBody, page_html |-> <<>>,
     client |-> FALSE, results |-> <<>>, total_count |-> NoneInt,
     replay_headers |-> FALSE, exc |-> None, returned |-> FALSE,
     structured |-> <<>>, html_invoked |-> FALSE, dom_invoked |-> FALSE,
     page_log |-> <<>>, ran |-> <<>>, source |-> "none", expired |-> {},
     first_pass |-> <<>>]

\* a mutation of tier_runs: a later tier runs whatever the earlier ones gave
tier_runs_always(results) ==
    TRUE

\* "if not results:" (lines 837, 891, 895, 913): a later tier of the first
\* pass runs only when no record is held
tier_runs(results) ==
    results = <<>>

\* a tier of the first pass is entered: its name and the number of records
\* held at that moment are remembered in f.ran
enter_tier(f, tier) ==
    [f EXCEPT !.ran = Append(@, [tier |-> tier, held |-> Len(f.results)])]

\* a mutation of wait_expired: the expiry leaves the tier as an exception
wait_expired_raise(f, tier) ==
    [f EXCEPT !.expired = @ \cup {tier}, !.exc = "TimeoutError"]

\* a bounded wait of tier expired inside its try block (lines 897-910 and
\* 567-572): the handler swallows the TimeoutError and the tier has no record
wait_expired(f, tier) ==
    [f EXCEPT !.expired = @ \cup {tier}]

\* where search_and_download goes on after a tier of the first pass: to the
\* finally block when an exception is on its way, else to the next tier
after_tier(f, next) == IF f.exc # None THEN "teardown" ELSE next

\* the tier whose records f holds after tier gave records
source_after(f, tier, records) ==
    IF records # <<>> THEN tier ELSE f.source

\* the records a JSON body gave to _parse_results_from_xhr
structured_of(content) ==
    IF content.kind = "json" THEN records_of_items(content.items) ELSE <<>>

\* what is remembered of one query
fresh_history ==
    [env_fault |-> "none", user_error |-> FALSE, zero_json |-> FALSE,
     reached_finish |-> FALSE, first_total |-> NoneInt, first_count |-> 0,
     paginated |-> FALSE, pag_target |-> NoneStr, pag_outcome |-> "none",
     raised |-> None, slept |-> FALSE]

\* a batch of up to MaxQueries queries against a site that shows the lean
\* range of behaviours
Init ==
    /\ pc = "start"
    /\ site = "lean"
    /\ open = NoneOpen
    /\ evaluator \in Evaluators
    /\ full_recall \in BOOLEAN
    /\ max_results = MaxResults
    /\ analysis_target \in BatchTargets
    /\ target_attr = Unset
    /\ \E n \in 0..MaxQueries : queries = [k \in 1..n |-> k]
    /\ qi = 0
    /\ search_results = <<>>
    /\ report = NoReport
    /\ hist = <<>>
    /\ nx = <<>> /\ ny = <<>> /\ nres = NoNormResult
    /\ CallIdle
    /\ q = IdleFrame /\ fa = IdleFrame

\* one query against a site that shows the rich range of behaviours
QueryInit ==
    /\ pc = "start"
    /\ site = "rich"
    /\ open = NoneOpen
    /\ evaluator \in Evaluators
    /\ full_recall \in BOOLEAN
    /\ max_results \in 1..MaxResults
    /\ analysis_target \in BatchTargets
    /\ target_attr = Unset
    /\ queries = <<1>>
    /\ qi = 0
    /\ search_results = <<>>
    /\ report = NoReport
    /\ hist = <<>>
    /\ nx = <<>> /\ ny = <<>> /\ nres = NoNormResult
    /\ CallIdle
    /\ q = IdleFrame /\ fa = IdleFrame

\* the value execute_searches leaves in downloader._target_patent
\* (recall_analyzer.py 95-96, patent_analyzer.py 191-192)
target_attr_after(ev, target_patent, fr, old) ==
    IF ev = "RecallAnalyzer"
    THEN IF target_patent # NoneStr /\ target_patent # <<>> /\ ~fr THEN target_patent ELSE old
    ELSE IF target_patent # NoneStr /\ target_patent # <<>> THEN target_patent ELSE old

ExecuteSearchesEnter ==
    /\ pc = "start"
    /\ target_attr' = target_attr_after(evaluator, analysis_target, full_recall, target_attr)
    /\ pc' = "loop"
    /\ UNCHANGED <<normVars, callVars, evaluator, full_recall, max_results, analysis_target,
                   queries, qi, search_results, report, hist, q, fa, site, open>>

\* for i, query_info in enumerate(queries, 1): the next query is started
NextQuery ==
    /\ pc = "loop"
    /\ qi < Len(queries)
    /\ qi' = qi + 1
    /\ hist' = Append(hist, fresh_history)
    /\ pc' = "launch"
    /\ UNCHANGED <<normVars, callVars, evaluator, full_recall, max_results, analysis_target,
                   target_attr, queries, search_results, report, q, fa, site, open>>

\* the loop is over: execute_searches returns search_results
ExecuteSearchesReturn ==
    /\ pc = "loop"
    /\ qi >= Len(queries)
    /\ pc' = "calc"
    /\ UNCHANGED <<normVars, callVars, batchVars, q, fa>>

\* how lines 806-808 can end: "ok", or the call that raised
LaunchOutcomes(profile) ==
    IF profile = "rich" THEN {"ok", "launch", "new_context", "new_page"}
    ELSE {"ok", "launch", "new_context"}

\* the resources lines 806-808 have opened when they end with outcome
launched(o, outcome) ==
    CASE outcome = "launch" -> o
      [] outcome = "new_context" -> [o EXCEPT !.browser = @ + 1]
      [] OTHER -> [o EXCEPT !.browser = @ + 1, !.context = @ + 1]

\* a mutation of playwright_exit: leaving the block closes nothing
playwright_exit_leak(o) == o

\* line 805: leaving the "async with async_playwright()" block stops the
\* Playwright session, which disposes of the browsers it launched and of
\* their contexts; the HTTP client is no part of it
playwright_exit(o) == [o EXCEPT !.browser = 0, !.context = 0]

\* lines 805-817: the browser, its context and the page are created; a
\* failure here leaves search_and_download before its try block, through
\* the end of the Playwright session
Launch ==
    /\ pc = "launch"
    /\ \E outcome \in LaunchOutcomes(site) :
          IF outcome = "ok"
          THEN /\ q' = query_frame
               /\ open' = launched(open, outcome)
               /\ pc' = "capture"
               /\ hist' = hist
          ELSE /\ q' = [query_frame EXCEPT !.exc = outcome]
               /\ open' = playwright_exit(launched(open, outcome))
               /\ pc' = "record"
               /\ hist' = [hist EXCEPT ![qi].env_fault = outcome, ![qi].raised = outcome]
    /\ UNCHANGED <<normVars, callVars, evaluator, full_recall, max_results, analysis_target,
                   target_attr, queries, qi, search_results, report, fa, site>>

\* line 820: _capture_xhr_request returns (captured, page_html, xhr_text)
Capture ==
    /\ pc = "capture"
    /\ \E captured \in Captures(site), xhr_text \in XhrTexts(site),
          page_html \in HtmlDocs(site) :
          /\ q' = [q EXCEPT !.captured = captured, !.xhr_text = xhr_text,
                            !.page_html = page_html]
          /\ hist' = [hist EXCEPT ![qi].user_error = xhr_text.user_error,
                                  ![qi].zero_json = (xhr_text = ZeroJson)]
    /\ pc' = "build_client"
    /\ UNCHANGED <<normVars, callVars, evaluator, full_recall, max_results, analysis_target,
                   target_attr, queries, qi, search_results, report, fa, site, open>>

\* line 825: _build_client_with_cookies; reading the cookies can fail
BuildClient ==
    /\ pc = "build_client"
    /\ \E ok \in BOOLEAN :
          IF ok
          THEN /\ q' = [q EXCEPT !.client = TRUE]
               /\ open' = [open EXCEPT !.client = @ + 1]
               /\ pc' = "parse_xhr"
               /\ hist' = hist
          ELSE /\ q' = [q EXCEPT !.exc = "build_client"]
               /\ open' = open
               /\ pc' = "teardown"
               /\ hist' = [hist EXCEPT ![qi].env_fault = "build_client",
                                        ![qi].raised = "build_client"]
    /\ UNCHANGED <<normVars, callVars, evaluator, full_recall, max_results, analysis_target,
                   target_attr, queries, qi, search_results, report, fa, site>>

\* lines 828-834: the response the browser received is parsed first
ParseXhr ==
    /\ pc = "parse_xhr"
    /\ q' = IF q.xhr_text.kind # "empty"
            THEN LET parsed == parse_results_from_xhr(q.xhr_text)
                 IN [enter_tier(q, "xhr")
                        EXCEPT !.results = parsed.results, !.total_count = parsed.total,
                               !.xhr_text = NoBody,
                               !.structured = structured_of(q.xhr_text),
                               !.html_invoked = parsed.html,
                               !.source = source_after(q, IF parsed.html THEN "xhr_html"
                                                          ELSE "xhr", parsed.results)]
            ELSE q
    /\ pc' = "replay"
    /\ UNCHANGED <<normVars, callVars, batchVars, fa>>

\* lines 836-888: with no record yet and a captured request, the request is
\* replayed through the client; replay_headers is bound on the way
Replay ==
    /\ pc = "replay"
    /\ IF tier_runs(q.results) /\ q.captured
       THEN \E resp \in ReplayResponses(site) :
               /\ q' = IF resp.kind = "ok"
                       THEN LET parsed == parse_results_from_xhr(resp.body)
                            IN [enter_tier(q, "replay")
                                   EXCEPT !.replay_headers = TRUE,
                                          !.results = parsed.results,
                                          !.total_count = parsed.total,
                                          !.structured = structured_of(resp.body),
                                          !.html_invoked = @ \/ parsed.html,
                                          !.source = source_after(q,
                                              IF parsed.html THEN "xhr_html" ELSE "replay",
                                              parsed.results)]
                       ELSE [enter_tier(q, "replay") EXCEPT !.replay_headers = TRUE]
               /\ hist' = [hist EXCEPT ![qi].user_error =
                                          @ \/ (resp.kind = "ok" /\ resp.body.user_error),
                                        ![qi].zero_json =
                                          @ \/ (resp.kind = "ok" /\ resp.body = ZeroJson)]
       ELSE /\ q' = q
            /\ hist' = hist
    /\ pc' = "page_html"
    /\ UNCHANGED <<normVars, callVars, evaluator, full_recall, max_results, analysis_target,
                   target_attr, queries, qi, search_results, report, fa, site, open>>

\* lines 890-892: the markup captured with the request
ParsePageHtml ==
    /\ pc = "page_html"
    /\ q' = IF tier_runs(q.results)
            THEN LET records == parse_results_from_html(q.page_html)
                 IN [enter_tier(q, "page_html")
                        EXCEPT !.results = records,
                               !.page_html = <<>>, !.html_invoked = TRUE,
                               !.source = source_after(q, "page_html", records)]
            ELSE [q EXCEPT !.page_html = <<>>]
    /\ pc' = "direct_url"
    /\ UNCHANGED <<normVars, callVars, batchVars, fa>>

\* lines 894-910: the search URL is opened directly and its markup parsed;
\* a failure on the way is swallowed
DirectUrl ==
    /\ pc = "direct_url"
    /\ IF tier_runs(q.results)
       THEN \E ok \in BOOLEAN, html2 \in HtmlDocs(site) :
               q' = IF ok
                    THEN LET records == parse_results_from_html(html2)
                         IN [enter_tier(q, "direct_url")
                                EXCEPT !.results = records,
                                       !.html_invoked = TRUE,
                                       !.source = source_after(q, "direct_url", records)]
                    ELSE wait_expired(enter_tier(q, "direct_url"), "direct_url")
       ELSE q' = q
    /\ pc' = after_tier(q', "dom")
    /\ UNCHANGED <<normVars, callVars, batchVars, fa>>

\* lines 912-917: the live page is read; when no article appears within
\* self.timeout seconds (lines 567-572) the tier has no record
ParseDom ==
    /\ pc = "dom"
    /\ IF tier_runs(q.results)
       THEN \E appeared \in BOOLEAN, html3 \in HtmlDocs(site) :
               q' = IF appeared
                    THEN LET records == parse_results_from_dom(html3)
                         IN [enter_tier(q, "dom")
                                EXCEPT !.results = records,
                                       !.dom_invoked = TRUE,
                                       !.source = source_after(q, "dom", records)]
                    ELSE [wait_expired(enter_tier(q, "dom"), "dom")
                             EXCEPT !.dom_invoked = TRUE]
       ELSE q' = q
    /\ pc' = after_tier(q', "paging")
    /\ UNCHANGED <<normVars, callVars, batchVars, fa>>

\* the merge every paging loop applies to the records of a response:
\* unseen detail_url only, until max_results records are held
RECURSIVE merge_new(_, _, _)
merge_new(results, more, limit) ==
    IF more = <<>> THEN results
    ELSE LET m == Head(more)
             seen == {results[k].detail_url : k \in 1..Len(results)}
         IN IF m.detail_url # <<>> /\ m.detail_url \notin seen
            THEN IF Len(results) + 1 >= limit
                 THEN Append(results, m)
                 ELSE merge_new(Append(results, m), Tail(more), limit)
            ELSE merge_new(results, Tail(more), limit)

\* what the paging of one query can bring in, in the order met
PagingOutcomes(profile) ==
    IF profile = "rich"
    THEN {<<>>} \cup {<<r>> : r \in PagingRecords}
                \cup {<<r1, r2>> : r1 \in PagingRecords, r2 \in PagingRecords}
    ELSE {<<>>}

\* whether collect_from_current_page (lines 1035-1055) gets to run during
\* the paging of a query, and whether it goes on to _parse_results_from_dom
PagingCollects(profile) ==
    IF profile = "rich"
    THEN {[collected |-> FALSE, dom |-> FALSE], [collected |-> TRUE, dom |-> FALSE],
          [collected |-> TRUE, dom |-> TRUE]}
    ELSE {[collected |-> FALSE, dom |-> FALSE]}

\* lines 919-1138: with fewer than max_results records, parameter paging
\* (which binds replay_headers when a request was captured), scrolling and
\* next-page links bring in further records; none of it raises.  Records
\* come from the replayed request or from collect_from_current_page.
Paging ==
    /\ pc = "paging"
    /\ IF Len(q.results) < max_results
       THEN \E more \in PagingOutcomes(site), c \in PagingCollects(site) :
               /\ more # <<>> => (q.captured \/ c.collected)
               /\ q' = [q EXCEPT !.replay_headers = @ \/ q.captured,
                                 !.results = merge_new(@, more, max_results),
                                 !.html_invoked = @ \/ c.collected,
                                 !.dom_invoked = @ \/ c.dom]
       ELSE q' = q
    /\ pc' = "finish"
    /\ UNCHANGED <<normVars, callVars, batchVars, fa>>

\* getattr(self, '_target_patent', None)
getattr_target(attr) == IF attr = Unset THEN NoneStr ELSE attr

\* results[:max_results]
truncate(results, limit) == SubSeq(results, 1, Min(limit, Len(results)))

\* a mutation of finish_step: an empty result list is an error
finish_step_raise(f, fr, limit) ==
    IF f.results = <<>>
    THEN [next |-> "raise", results |-> <<>>]
    ELSE LET kept == truncate(f.results, limit)
         IN IF fr /\ f.total_count # NoneInt /\ f.total_count # 0
                  /\ f.total_count > Len(kept)
            THEN IF ~f.replay_headers
                 THEN [next |-> "raise", results |-> kept]
                 ELSE [next |-> "paginate", results |-> kept]
            ELSE [next |-> "return", results |-> kept]

\* lines 1140-1155 in count_only mode: what search_and_download does with
\* the records of the first pass
finish_step(f, fr, limit) ==
    IF f.results = <<>>
    THEN [next |-> "return", results |-> <<>>]
    ELSE LET kept == truncate(f.results, limit)
         IN IF fr /\ f.total_count # NoneInt /\ f.total_count # 0
                  /\ f.total_count > Len(kept)
            THEN IF ~f.replay_headers
                 THEN [next |-> "raise", results |-> kept]
                 ELSE [next |-> "paginate", results |-> kept]
            ELSE [next |-> "return", results |-> kept]

Finish ==
    /\ pc = "finish"
    /\ LET step == finish_step(q, full_recall, max_results)
       IN /\ hist' = [hist EXCEPT ![qi].reached_finish = TRUE,
                                  ![qi].first_total = q.total_count,
                                  ![qi].first_count = Len(step.results),
                                  ![qi].paginated = (step.next = "paginate"),
                                  ![qi].pag_target = IF step.next = "paginate"
                                                     THEN getattr_target(target_attr)
                                                     ELSE NoneStr,
                                  ![qi].raised = IF step.next = "raise"
                                                 THEN "UnboundLocalError: replay_headers"
                                                 ELSE @]
          /\ CASE step.next = "return" ->
                    /\ q' = [q EXCEPT !.results = step.results, !.returned = TRUE,
                                      !.first_pass = step.results]
                    /\ fa' = fa
                    /\ pc' = "teardown"
               [] step.next = "raise" ->
                    /\ q' = [q EXCEPT !.results = step.results,
                                      !.first_pass = step.results,
                                      !.exc = "UnboundLocalError: replay_headers"]
                    /\ fa' = fa
                    /\ pc' = "teardown"
               [] step.next = "paginate" ->
                    /\ q' = [q EXCEPT !.results = step.results,
                                      !.first_pass = step.results]
                    /\ fa' = fetch_all_enter(q.total_count, getattr_target(target_attr))
                    /\ pc' = "fetch_all"
    /\ UNCHANGED <<normVars, callVars, evaluator, full_recall, max_results, analysis_target,
                   target_attr, queries, qi, search_results, report, site, open>>

\* lines 1154-1155: _fetch_all_results has returned; its list replaces the
\* records of the first pass
FetchAllReturn ==
    /\ pc = "fetch_all"
    /\ q.state = "running"
    /\ fa.state = "returned"
    /\ q' = [q EXCEPT !.results = fa.all_results, !.returned = TRUE,
                      !.page_log = fa.pages]
    /\ hist' = [hist EXCEPT ![qi].pag_outcome = fa.outcome]
    /\ fa' = IdleFrame
    /\ pc' = "teardown"
    /\ UNCHANGED <<normVars, callVars, evaluator, full_recall, max_results,
                   analysis_target, target_attr, queries, qi, search_results, report,
                   site, open>>

\* how the finally block can end: "ok", or the close that raised
\* (a failure of client.aclose() is swallowed and does not end it)
CloseOutcomes(profile) ==
    IF profile = "rich" THEN {"ok", "context_close", "browser_close"}
    ELSE {"ok", "context_close"}

\* lines 1210-1218: what the finally block closes.  The client is closed
\* when the local is bound; context.close() raising skips browser.close()
finally_block(o, client_bound, outcome) ==
    LET c == IF client_bound THEN [o EXCEPT !.client = 0] ELSE o
    IN CASE outcome = "ok" -> [c EXCEPT !.context = 0, !.browser = 0]
         [] outcome = "context_close" -> c
         [] OTHER -> [c EXCEPT !.context = 0]

\* lines 1210-1224: the finally block, then the end of the Playwright
\* session; closing the client is guarded, closing the context and the
\* browser is not
Teardown ==
    /\ pc = "teardown"
    /\ \E outcome \in CloseOutcomes(site) :
          /\ open' = playwright_exit(finally_block(open, q.client, outcome))
          /\ IF outcome = "ok"
             THEN /\ q' = [q EXCEPT !.client = FALSE]
                  /\ hist' = hist
             ELSE /\ q' = [q EXCEPT !.client = FALSE, !.exc = "close", !.returned = FALSE]
                  /\ hist' = [hist EXCEPT ![qi].env_fault =
                                             IF @ = "none" THEN "close" ELSE @,
                                           ![qi].raised = "close"]
    /\ pc' = "record"
    /\ UNCHANGED <<normVars, callVars, evaluator, full_recall, max_results, analysis_target,
                   target_attr, queries, qi, search_results, report, fa, site>>

\* [p.publication_number for p in patents if p.publication_number]
RECURSIVE found_patents_of(_)
found_patents_of(patents) ==
    IF patents = <<>> THEN <<>>
    ELSE LET pub == Head(patents).publication_number
             rest == found_patents_of(Tail(patents))
         IN IF pub # NoneStr /\ pub # <<>> THEN <<pub>> \o rest ELSE rest

\* a mutation of query_entry: a query that raised is recorded like one
\* that found nothing
query_entry_swallow(i, f) ==
    IF f.exc # None
    THEN success_entry(i, NoneInt, 0, <<>>)
    ELSE success_entry(i, f.total_count, Len(f.results), found_patents_of(f.results))

\* the dict execute_searches appends for query i (recall_analyzer.py
\* 109-153, patent_analyzer.py 205-244): the try branch when
\* search_and_download returned, the except branch when it raised
query_entry(i, f) ==
    IF f.exc # None
    THEN failure_entry(i, f.exc)
    ELSE success_entry(i, f.total_count, Len(f.results), found_patents_of(f.results))

\* whether the loop body of execute_searches sleeps self.delay after
\* recording query i of n: patent_analyzer.py 246-248 does, after the
\* try/except; the loop of recall_analyzer.py 102-153 has no sleep
sleeps_after(ev, i, n) ==
    ev = "PatentQueryGenerator" /\ i < n

\* the rest of the loop body: the entry is appended and, where the code has
\* it, the inter-query delay elapses
RecordResult ==
    /\ pc = "record"
    /\ search_results' = Append(search_results, query_entry(qi, q))
    /\ hist' = [hist EXCEPT ![qi].slept = sleeps_after(evaluator, qi, Len(queries))]
    /\ q' = IdleFrame
    /\ pc' = "loop"
    /\ UNCHANGED <<normVars, callVars, evaluator, full_recall, max_results, analysis_target,
                   target_attr, queries, qi, report, fa, site, open>>

Next ==
    \/ ExecuteSearchesEnter \/ NextQuery \/ ExecuteSearchesReturn
    \/ Launch \/ Capture \/ BuildClient
    \/ ParseXhr \/ Replay \/ ParsePageHtml \/ DirectUrl \/ ParseDom
    \/ Paging \/ Finish \/ FetchPage \/ FetchLoopEnd \/ FetchAllReturn
    \/ Teardown \/ RecordResult \/ CalculateSeedRecall

Spec == Init /\ [][Next]_vars

SpecQuery == QueryInit /\ [][Next]_vars

\* one query, every step of which is eventually taken: each await of the
\* code ends, by its result, its exception or its timeout
SpecQueryLive == QueryInit /\ [][Next]_vars /\ WF_vars(Next)

(***************************************************************************)
(* Extraction harness: _parse_results_from_xhr on bounded response bodies  *)
(***************************************************************************)
\* longest item list and longest article list of an enumerated body
MaxItems == 2

ExtractItems ==
    {ItemEP2, ItemUS1, [id |-> <<>>, publication_number |-> IdEP2, title |-> <<"T">>]}

ExtractArticles ==
    {Article("patent/EP2/en", IdEP2), Article("patent/US1/en", NoneStr),
     [anchor |-> FALSE, title |-> <<"T">>, href |-> <<"/", "patent/N3/en">>, pub |-> IdEP2]}

\* the response bodies handed to _parse_results_from_xhr
ExtractPayloads ==
    {NoBody, UserErrorJson}
       \cup {JsonPayload(t, items) : t \in {NoneInt, 0, 150},
                                     items \in ListsUpTo(ExtractItems, MaxItems)}
       \cup {Payload(k, FALSE, NoneInt, <<>>, arts) :
                 k \in {"badjson", "shapeless", "html"},
                 arts \in ListsUpTo(ExtractArticles, MaxItems)}

ExtractInit ==
    /\ pc = "xhr_ready"
    /\ arg \in ExtractPayloads
    /\ ret = IdleFrame
    /\ nx = <<>> /\ ny = <<>> /\ nres = NoNormResult
    /\ BatchIdle
    /\ q = IdleFrame /\ fa = IdleFrame

\* one call of _parse_results_from_xhr
ParseXhrCall ==
    /\ pc = "xhr_ready"
    /\ ret' = parse_results_from_xhr(arg)
    /\ pc' = "xhr_done"
    /\ UNCHANGED <<normVars, batchVars, q, fa, arg>>

ExtractNext == ParseXhrCall

SpecExtract == ExtractInit /\ [][ExtractNext]_vars

\* the body starts like an object but is no structured response of the
\* expected shape
LooksLikeObjectOnly == arg.kind \in {"badjson", "shapeless"}

TierHrefs ==
    {<<>>, <<"/", "patent/EP2/en">>, <<"patent/EP2/en">>,
     <<GOOGLE_PATENTS_ORIGIN, "/", "patent/EP2/en">>,
     <<"http://other.example", "/", "x">>}

\* the articles of a page: with an "h3 a" anchor whose href has each form,
\* without such an anchor, and with an anchor whose text is blank
TierArticles ==
    {[anchor |-> TRUE, title |-> <<"T">>, href |-> h, pub |-> IdEP2] : h \in TierHrefs}
        \cup {[anchor |-> FALSE, title |-> <<"T">>, href |-> <<"/", "patent/N3/en">>,
                pub |-> NoneStr],
              [anchor |-> TRUE, title |-> <<" ">>, href |-> <<"/", "patent/EP2/en">>,
                pub |-> IdEP2]}

\* the id of an item of the JSON body: missing, with or without leading slash
TierItems ==
    {[id |-> i, publication_number |-> IdEP2, title |-> <<"T">>] :
        i \in {<<>>, <<"patent/EP2/en">>, <<"/", "patent/EP2/en">>}}

TierInputs ==
    {[tier |-> t, input |-> arts] :
        t \in {"html", "dom"}, arts \in ListsUpTo(TierArticles, MaxItems)}
      \cup {[tier |-> "xhr", input |-> JsonPayload(150, items)] :
                items \in ListsUpTo(TierItems, MaxItems)}

TierInit ==
    /\ pc = "tier_ready"
    /\ arg \in TierInputs
    /\ ret = IdleFrame
    /\ nx = <<>> /\ ny = <<>> /\ nres = NoNormResult
    /\ BatchIdle
    /\ q = IdleFrame /\ fa = IdleFrame

ParseHtmlTier ==
    /\ pc = "tier_ready" /\ arg.tier = "html"
    /\ ret' = [results |-> parse_results_from_html(arg.input)]
    /\ pc' = "tier_done"
    /\ UNCHANGED <<normVars, batchVars, q, fa, arg>>

ParseDomTier ==
    /\ pc = "tier_ready" /\ arg.tier = "dom"
    /\ ret' = [results |-> parse_results_from_dom(arg.input)]
    /\ pc' = "tier_done"
    /\ UNCHANGED <<normVars, batchVars, q, fa, arg>>

ParseXhrTier ==
    /\ pc = "tier_ready" /\ arg.tier = "xhr"
    /\ ret' = [results |-> parse_results_from_xhr(arg.input).results]
    /\ pc' = "tier_done"
    /\ UNCHANGED <<normVars, batchVars, q, fa, arg>>

TierNext == ParseHtmlTier \/ ParseDomTier \/ ParseXhrTier

SpecTiers == TierInit /\ [][TierNext]_vars

\* an absolute URL: scheme and host, then nothing or a path that starts
\* with a slash
WellFormedAbsolute(u) ==
    /\ u # <<>>
    /\ Head(u) \in {GOOGLE_PATENTS_ORIGIN, "http://other.example"}
    /\ Len(u) > 1 => u[2] = "/"

\* C24 (original claim): every record any extraction tier produces has a
\* non-empty, absolute detail_url: a link that is already absolute is kept
\* as it is, and a relative link, with or without a leading slash, is
\* resolved against the site origin into a well-formed absolute URL.
C24_DetailUrlAbsolute ==
    pc = "tier_done" =>
        \A k \in 1..Len(ret.results) : WellFormedAbsolute(ret.results[k].detail_url)

(***************************************************************************)
(* Replay of the captured request: the headers sent                        *)
(***************************************************************************)
\* header names, as character sequences
H_cookie == <<"c", "o", "o", "k", "i", "e">>
H_host == <<"h", "o", "s", "t">>
H_content_length == <<"c", "o", "n", "t", "e", "n", "t", "-", "l", "e", "n", "g", "t", "h">>
H_authority == <<"a", "u", "t", "h", "o", "r", "i", "t", "y">>
H_pseudo_authority == <<":", "a", "u", "t", "h", "o", "r", "i", "t", "y">>
H_pseudo_method == <<":", "m", "e", "t", "h", "o", "d">>
H_pseudo_path == <<":", "p", "a", "t", "h">>
H_pseudo_scheme == <<":", "s", "c", "h", "e", "m", "e">>
H_method == <<"m", "e", "t", "h", "o", "d">>
H_path == <<"p", "a", "t", "h">>
H_scheme == <<"s", "c", "h", "e", "m", "e">>
H_origin == <<"o", "r", "i", "g", "i", "n">>
H_user_agent == <<"u", "s", "e", "r", "-", "a", "g", "e", "n", "t">>
H_x_same_domain == <<"x", "-", "s", "a", "m", "e", "-", "d", "o", "m", "a", "i", "n">>
H_referer == <<"r", "e", "f", "e", "r", "e", "r">>

\* the names lines 841-850 keep out of the replay
banned ==
    {H_cookie, H_host, H_authority, H_method, H_path, H_scheme, H_content_length,
     H_origin}

\* lines 841-858: replay_headers built from captured.headers (whose keys
\* on_request lower-cased) and captured.referer; header name -> value
replay_headers_of(headers, referer) ==
    LET kept == {k \in DOMAIN headers : lower(k) \notin banned}
        forwarded == [n \in {str_title(k) : k \in kept} |->
                         headers[CHOOSE k \in kept : str_title(k) = n]]
        xsd == str_title(H_x_same_domain)
        ref == str_title(H_referer)
    IN [n \in DOMAIN forwarded \cup {xsd, ref} |->
           IF n \in DOMAIN forwarded THEN forwarded[n]
           ELSE IF n = xsd THEN "1"
           ELSE IF referer # None /\ referer # "" THEN referer
           ELSE GOOGLE_PATENTS_ROOT]

\* the header names a captured request can carry (lower-cased by on_request,
\* lines 361-363)
CapturedNames ==
    {H_cookie, H_host, H_content_length, H_pseudo_authority, H_pseudo_method,
     H_pseudo_path, H_pseudo_scheme, H_authority, H_origin, H_user_agent,
     H_x_same_domain}

ReplayInit ==
    /\ pc = "replay_ready"
    /\ \E names \in SUBSET CapturedNames, referer \in {None, "r"} :
          arg = [headers |-> [k \in names |-> "v"], referer |-> referer]
    /\ ret = IdleFrame
    /\ nx = <<>> /\ ny = <<>> /\ nres = NoNormResult
    /\ BatchIdle
    /\ q = IdleFrame /\ fa = IdleFrame

\* the replay headers are built for one captured request
BuildReplayHeaders ==
    /\ pc = "replay_ready"
    /\ ret' = replay_headers_of(arg.headers, arg.referer)
    /\ pc' = "replay_built"
    /\ UNCHANGED <<normVars, batchVars, q, fa, arg>>

ReplayNext == BuildReplayHeaders

SpecReplay == ReplayInit /\ [][ReplayNext]_vars

\* the names the replay must never send: the cookie header and the
\* transport-framing headers
NeverReplayed ==
    {H_cookie, H_host, H_content_length, H_pseudo_authority, H_pseudo_method,
     H_pseudo_path, H_pseudo_scheme}

\* C19 (original claim): the headers sent when the captured request is
\* replayed never include cookie, host, content-length or a pseudo-header
\* (:authority, :method, :path, :scheme), whatever the captured headers.
C19_NoCookieNoFraming ==
    pc = "replay_built" =>
        \A n \in DOMAIN ret : lower(n) \notin NeverReplayed

(***************************************************************************)
(* _build_client_with_cookies: the headers of the client                   *)
(***************************************************************************)
H_accept_language == <<"a", "c", "c", "e", "p", "t", "-", "l", "a", "n", "g", "u", "a", "g", "e">>

\* the keys of default_headers, lines 489-496 and 508-510
K_User_Agent == <<"U", "s", "e", "r", "-", "A", "g", "e", "n", "t">>
K_Accept_Language == <<"A", "c", "c", "e", "p", "t", "-", "L", "a", "n", "g", "u", "a", "g", "e">>
K_Accept == <<"A", "c", "c", "e", "p", "t">>
K_Referer == <<"R", "e", "f", "e", "r", "e", "r">>
K_x_same_domain == <<"x", "-", "s", "a", "m", "e", "-", "d", "o", "m", "a", "i", "n">>

\* lines 489-496: the fixed baseline
default_headers ==
    [n \in {K_User_Agent, K_Accept_Language, K_Accept, K_Referer} |->
        IF n = K_User_Agent THEN "Mozilla/5.0 Chrome/126.0.0.0 Safari/537.36"
        ELSE IF n = K_Accept_Language THEN "en-US,en;q=0.9,ko;q=0.8"
        ELSE IF n = K_Accept THEN "text/html,application/xhtml+xml"
        ELSE GOOGLE_PATENTS_ROOT]

\* dict.get(key): the value, or None
dict_get(headers, key) == IF key \in DOMAIN headers THEN headers[key] ELSE None

\* truth value of an Optional[str]
truthy(v) == v # None /\ v # ""

\* a capture: present is FALSE when captured is None
NoCapture == [present |-> FALSE, headers |-> <<>>, referer |-> None]

\* a mutation of build_client_headers: the capture is not overlaid
build_client_headers_baseline(captured) ==
    default_headers

\* lines 489-511: the headers handed to httpx.AsyncClient
build_client_headers(captured) ==
    IF ~captured.present THEN default_headers
    ELSE LET ua == dict_get(captured.headers, H_user_agent)
             al == dict_get(captured.headers, H_accept_language)
             ref == captured.referer
             xsd == dict_get(captured.headers, H_x_same_domain)
         IN [n \in DOMAIN default_headers \cup {K_x_same_domain} |->
                IF n = K_User_Agent /\ truthy(ua) THEN ua
                ELSE IF n = K_Accept_Language /\ truthy(al) THEN al
                ELSE IF n = K_Referer /\ truthy(ref) THEN ref
                ELSE IF n = K_x_same_domain THEN (IF truthy(xsd) THEN xsd ELSE "1")
                ELSE default_headers[n]]

\* the captured headers that matter to the client, each absent, empty or set
ClientCaptures ==
    {NoCapture} \cup
    {[present |-> TRUE, headers |-> [k \in names |-> vals[k]], referer |-> r] :
        names \in SUBSET {H_user_agent, H_accept_language, H_x_same_domain},
        vals \in [{H_user_agent, H_accept_language, H_x_same_domain} -> {"", "c"}],
        r \in {None, "", "r"}}

ClientInit ==
    /\ pc = "client_ready"
    /\ arg \in ClientCaptures
    /\ ret = IdleFrame
    /\ nx = <<>> /\ ny = <<>> /\ nres = NoNormResult
    /\ BatchIdle
    /\ q = IdleFrame /\ fa = IdleFrame

\* the client is built for one capture
BuildClientHeaders ==
    /\ pc = "client_ready"
    /\ ret' = build_client_headers(arg)
    /\ pc' = "client_built"
    /\ UNCHANGED <<normVars, batchVars, q, fa, arg>>

ClientNext == BuildClientHeaders

SpecClient == ClientInit /\ [][ClientNext]_vars

\* the capture has a value for the header: the key is there and not empty
CaptureHas(key) == key \in DOMAIN arg.headers /\ arg.headers[key] # ""

\* C20: with no captured session the client headers are exactly the baseline
\* and carry no same-origin marker; with a captured session user-agent,
\* accept-language and referer each take the captured value when the capture
\* has one (a non-empty value) and the baseline value otherwise, and
\* x-same-domain is always present, the captured value when that is non-empty
\* and "1" otherwise.
C20_HeaderPrecedence ==
    pc = "client_built" =>
        IF ~arg.present
        THEN /\ ret = default_headers
             /\ K_x_same_domain \notin DOMAIN ret
        ELSE /\ ret[K_User_Agent] =
                    (IF CaptureHas(H_user_agent) THEN arg.headers[H_user_agent]
                     ELSE default_headers[K_User_Agent])
             /\ ret[K_Accept_Language] =
                    (IF CaptureHas(H_accept_language) THEN arg.headers[H_accept_language]
                     ELSE default_headers[K_Accept_Language])
             /\ ret[K_Referer] =
                    (IF arg.referer \notin {None, ""} THEN arg.referer
                     ELSE default_headers[K_Referer])
             /\ K_x_same_domain \in DOMAIN ret
             /\ ret[K_x_same_domain] =
                    (IF CaptureHas(H_x_same_domain) THEN arg.headers[H_x_same_domain]
                     ELSE "1")

\* a client built from a capture that has a user-agent but an empty referer
\* and no same-origin marker
C20_Witness ==
    /\ pc = "client_built"
    /\ arg.present
    /\ CaptureHas(H_user_agent)
    /\ arg.referer = ""
    /\ H_x_same_domain \notin DOMAIN arg.headers
    /\ ret[K_User_Agent] = "c"
    /\ ret[K_Referer] = GOOGLE_PATENTS_ROOT
    /\ ret[K_x_same_domain] = "1"

(***************************************************************************)
(* _capture_xhr_request: the interactive attempt and the direct-URL        *)
(* fallback, one await at a time                                           *)
(***************************************************************************)
\* the search-API requests the page can issue while one capture runs
MaxRequests == 2

\* the markup page.content() can return, as the tags it holds
MarkupDocs == {<<>>, <<"div">>, <<"div", "article">>}

\* "<article" in search_results_html
has_article(html) == \E k \in 1..Len(html) : html[k] = "article"

\* a mutation of on_request: the observer records nothing
on_request_deaf(captured, request) ==
    captured

\* lines 356-371: the observer binds captured to the request whose URL holds
\* "/xhr/query"; 0 stands for None, n for the CapturedRequest built from the
\* n-th request of the page
on_request(captured, request) ==
    IF request.xhr_query THEN request.id ELSE captured

\* a mutation of swallowed: the exception leaves the handler
swallowed_reraise(exc, step) ==
    IF exc = None THEN step ELSE exc

\* "except Exception:" with a body that does not raise (lines 370, 385, 396,
\* 398, 407, 412, 418, 420, 435, 439, 443, 448, 461): the exception that
\* leaves the handler, None
swallowed(exc, step) ==
    exc

\* lines 349-354: the locals of _capture_xhr_request, and what is remembered
\* of the run: the waits each attempt performed, the matching requests seen
\* after the commit, the markup the interactive attempt ended with.
\* pending holds the search-API requests still without response, matched the
\* request whose response resolved the waiter of line 391, xhr_of the request
\* whose response text was read, arrived the responses that came after the
\* commit and before the waiter timed out.
capture_frame ==
    [state |-> "capture", handler |-> FALSE, captured |-> 0,
     search_results_html |-> <<>>, xhr_response_text |-> None,
     filled |-> FALSE, committed |-> FALSE, requests |-> 0, after_commit |-> 0,
     nav2 |-> FALSE, html1 |-> <<>>,
     waits1 |-> <<>>, waits2 |-> <<>>, failed |-> {}, exc |-> None,
     pending |-> {}, matched |-> 0, xhr_of |-> 0, arrived |-> {},
     timed_out |-> FALSE]

CaptureInit ==
    /\ pc = "acq_start"
    /\ arg = capture_frame
    /\ ret = IdleFrame
    /\ nx = <<>> /\ ny = <<>> /\ nres = NoNormResult
    /\ BatchIdle
    /\ q = IdleFrame /\ fa = IdleFrame

CaptureUnchanged == UNCHANGED <<normVars, batchVars, q, fa, ret>>

\* the await called step raises inside a try block whose handler swallows
fault(f, step) ==
    [f EXCEPT !.failed = @ \cup {step}, !.exc = swallowed(@, step)]

\* the outer handler of the interactive attempt, lines 420-421
first_attempt_failed(f, step) ==
    [fault(f, step) EXCEPT !.search_results_html = <<>>]

\* line 373: page.on("request", on_request)
InstallObserver ==
    /\ pc = "acq_start"
    /\ arg' = [arg EXCEPT !.handler = TRUE]
    /\ pc' = "acq_goto"
    /\ CaptureUnchanged

\* the page issues a request once a search was committed or the search URL
\* opened; the observer, once installed, is called with it
ObserveRequest ==
    /\ pc # "acq_returned"
    /\ arg.committed \/ arg.nav2
    /\ arg.requests < MaxRequests
    /\ \E xhr_query \in BOOLEAN :
          LET request == [id |-> IF xhr_query THEN arg.requests + 1 ELSE 0,
                          xhr_query |-> xhr_query]
              now == IF arg.handler THEN on_request(arg.captured, request)
                     ELSE arg.captured
          IN arg' = [arg EXCEPT !.requests = IF xhr_query THEN @ + 1 ELSE @,
                                !.captured = now,
                                !.after_commit =
                                    IF xhr_query /\ arg.committed THEN @ + 1 ELSE @,
                                !.pending =
                                    IF xhr_query THEN @ \cup {request.id} ELSE @]
    /\ pc' = pc
    /\ CaptureUnchanged

\* the response to a search-API request reaches the page; the waiter of
\* page.wait_for_response sees it only if it is registered and unresolved
\* at that moment
ResponseArrives ==
    /\ pc # "acq_returned"
    /\ \E id \in arg.pending :
          arg' = [arg EXCEPT !.pending = @ \ {id},
                             !.matched =
                                 IF pc = "acq_waiting" /\ @ = 0 THEN id ELSE @,
                             !.arrived =
                                 IF arg.committed /\ ~arg.timed_out
                                 THEN @ \cup {id} ELSE @]
    /\ pc' = pc
    /\ CaptureUnchanged

\* lines 377-379: the home page is opened, the consent banner dismissed (a
\* failure of which _try_accept_consent swallows) and the load awaited
GotoHome ==
    /\ pc = "acq_goto"
    /\ \E ok \in BOOLEAN :
          IF ok
          THEN /\ arg' = arg
               /\ pc' = "acq_search_input"
          ELSE /\ arg' = first_attempt_failed(arg, "goto")
               /\ pc' = "acq_fallback_check"
    /\ CaptureUnchanged

\* lines 382-384: #searchInput is awaited for 3 s and filled
FillSearchInput ==
    /\ pc = "acq_search_input"
    /\ \E ok \in BOOLEAN :
          IF ok
          THEN /\ arg' = [arg EXCEPT !.filled = TRUE]
               /\ pc' = "acq_press"
          ELSE /\ arg' = fault(arg, "searchInput")
               /\ pc' = "acq_any_input"
    /\ CaptureUnchanged

\* lines 385-387: any input is awaited and the first one filled
FillAnyInput ==
    /\ pc = "acq_any_input"
    /\ \E ok \in BOOLEAN :
          IF ok
          THEN /\ arg' = [arg EXCEPT !.filled = TRUE]
               /\ pc' = "acq_press"
          ELSE /\ arg' = first_attempt_failed(arg, "input")
               /\ pc' = "acq_fallback_check"
    /\ CaptureUnchanged

\* line 388: Enter commits the search
PressEnter ==
    /\ pc = "acq_press"
    /\ \E ok \in BOOLEAN :
          IF ok
          THEN /\ arg' = [arg EXCEPT !.committed = TRUE]
               /\ pc' = "acq_wait_response"
          ELSE /\ arg' = first_attempt_failed(arg, "press")
               /\ pc' = "acq_fallback_check"
    /\ CaptureUnchanged

\* lines 391-393: page.wait_for_response registers its waiter, after Enter
\* was pressed at line 388
WaitResponse ==
    /\ pc = "acq_wait_response"
    /\ arg' = [arg EXCEPT !.waits1 = Append(@, "response")]
    /\ pc' = "acq_waiting"
    /\ CaptureUnchanged

\* lines 394-397: the waiter resolved with a response and its text is read
ResponseMatched ==
    /\ pc = "acq_waiting"
    /\ arg.matched # 0
    /\ \E readable \in BOOLEAN :
          arg' = IF readable
                 THEN [arg EXCEPT !.xhr_response_text = "body", !.xhr_of = arg.matched]
                 ELSE [fault(arg, "unreadable") EXCEPT !.xhr_response_text = None]
    /\ pc' = "acq_wait_selector"
    /\ CaptureUnchanged

\* lines 398-399: no matching response within self.timeout seconds
ResponseTimeout ==
    /\ pc = "acq_waiting"
    /\ arg.matched = 0
    /\ arg' = [fault(arg, "timeout") EXCEPT !.xhr_response_text = None,
                                            !.timed_out = TRUE]
    /\ pc' = "acq_wait_selector"
    /\ CaptureUnchanged

\* lines 402-408: the results container is awaited
WaitSelector ==
    /\ pc = "acq_wait_selector"
    /\ \E ok \in BOOLEAN :
          arg' = [(IF ok THEN arg ELSE fault(arg, "selector"))
                     EXCEPT !.waits1 = Append(@, "selector")]
    /\ pc' = "acq_idle"
    /\ CaptureUnchanged

\* lines 410-413: the network is given 1.5 s to fall idle
WaitIdle ==
    /\ pc = "acq_idle"
    /\ \E ok \in BOOLEAN :
          arg' = [(IF ok THEN arg ELSE fault(arg, "idle"))
                     EXCEPT !.waits1 = Append(@, "idle")]
    /\ pc' = "acq_settle"
    /\ CaptureUnchanged

\* line 414: the page settles for 250 ms
Settle ==
    /\ pc = "acq_settle"
    /\ \E ok \in BOOLEAN :
          IF ok
          THEN /\ arg' = [arg EXCEPT !.waits1 = Append(@, "settle")]
               /\ pc' = "acq_content"
          ELSE /\ arg' = first_attempt_failed(arg, "settle")
               /\ pc' = "acq_fallback_check"
    /\ CaptureUnchanged

\* lines 416-419: search_results_html = await page.content()
ReadContent ==
    /\ pc = "acq_content"
    /\ \E ok \in BOOLEAN, html \in MarkupDocs :
          arg' = IF ok THEN [arg EXCEPT !.search_results_html = html]
                 ELSE [fault(arg, "content") EXCEPT !.search_results_html = <<>>]
    /\ pc' = "acq_fallback_check"
    /\ CaptureUnchanged

\* line 424: if not search_results_html or "<article" not in search_results_html
needs_fallback(html) ==
    html = <<>> \/ ~has_article(html)

FallbackCheck ==
    /\ pc = "acq_fallback_check"
    /\ arg' = [arg EXCEPT !.html1 = arg.search_results_html]
    /\ pc' = IF needs_fallback(arg.search_results_html) THEN "acq_goto2"
             ELSE "acq_return"
    /\ CaptureUnchanged

\* lines 428-429: the search URL is opened and the consent banner dismissed
GotoSearchUrl ==
    /\ pc = "acq_goto2"
    /\ \E ok \in BOOLEAN :
          IF ok
          THEN /\ arg' = [arg EXCEPT !.nav2 = TRUE]
               /\ pc' = "acq_wait_selector2"
          ELSE /\ arg' = [fault(arg, "goto2") EXCEPT !.nav2 = TRUE]
               /\ pc' = "acq_last_try"
    /\ CaptureUnchanged

\* lines 430-436
WaitSelector2 ==
    /\ pc = "acq_wait_selector2"
    /\ \E ok \in BOOLEAN :
          arg' = [(IF ok THEN arg ELSE fault(arg, "selector2"))
                     EXCEPT !.waits2 = Append(@, "selector")]
    /\ pc' = "acq_idle2"
    /\ CaptureUnchanged

\* lines 437-440
WaitIdle2 ==
    /\ pc = "acq_idle2"
    /\ \E ok \in BOOLEAN :
          arg' = [(IF ok THEN arg ELSE fault(arg, "idle2"))
                     EXCEPT !.waits2 = Append(@, "idle")]
    /\ pc' = "acq_settle2"
    /\ CaptureUnchanged

\* line 441
Settle2 ==
    /\ pc = "acq_settle2"
    /\ \E ok \in BOOLEAN :
          IF ok
          THEN /\ arg' = [arg EXCEPT !.waits2 = Append(@, "settle")]
               /\ pc' = "acq_content2"
          ELSE /\ arg' = fault(arg, "settle2")
               /\ pc' = "acq_last_try"
    /\ CaptureUnchanged

\* line 442
ReadContent2 ==
    /\ pc = "acq_content2"
    /\ \E ok \in BOOLEAN, html \in MarkupDocs :
          IF ok
          THEN /\ arg' = [arg EXCEPT !.search_results_html = html]
               /\ pc' = "acq_return"
          ELSE /\ arg' = fault(arg, "content2")
               /\ pc' = "acq_last_try"
    /\ CaptureUnchanged

\* lines 443-449: whatever markup the page has once its DOM is loaded
LastTry ==
    /\ pc = "acq_last_try"
    /\ \E ok \in BOOLEAN, html \in MarkupDocs :
          arg' = IF ok THEN [arg EXCEPT !.search_results_html = html]
                 ELSE fault(arg, "last_try")
    /\ pc' = "acq_return"
    /\ CaptureUnchanged

\* lines 451-466: the diagnostics are written (a failure is swallowed) and
\* the triple is returned, unless an exception is on its way out
CaptureReturn ==
    /\ pc = "acq_return"
    /\ ret' = IF arg.exc = None
              THEN [state |-> "returned", captured |-> arg.captured,
                    search_results_html |-> arg.search_results_html,
                    xhr_response_text |-> arg.xhr_response_text]
              ELSE [state |-> "raised", exc |-> arg.exc]
    /\ pc' = "acq_returned"
    /\ UNCHANGED <<normVars, batchVars, q, fa, arg>>

CaptureNext ==
    \/ InstallObserver
    \/ ObserveRequest
    \/ ResponseArrives
    \/ GotoHome
    \/ FillSearchInput
    \/ FillAnyInput
    \/ PressEnter
    \/ WaitResponse
    \/ ResponseMatched
    \/ ResponseTimeout
    \/ WaitSelector
    \/ WaitIdle
    \/ Settle
    \/ ReadContent
    \/ FallbackCheck
    \/ GotoSearchUrl
    \/ WaitSelector2
    \/ WaitIdle2
    \/ Settle2
    \/ ReadContent2
    \/ LastTry
    \/ CaptureReturn

SpecCapture == CaptureInit /\ [][CaptureNext]_vars

\* C21: whatever fails while _capture_xhr_request runs (navigation, consent
\* handling, input filling, response wait, selector wait, idle wait, reading
\* the page content), no exception leaves it and it returns a triple: the
\* captured request or None, the markup (possibly empty), the raw API text
\* or None.
C21_AcquireNonFatal ==
    /\ arg.exc = None
    /\ pc = "acq_returned" =>
          /\ ret.state = "returned"
          /\ ret.captured \in 0..MaxRequests
          /\ ret.search_results_html \in MarkupDocs
          /\ ret.xhr_response_text \in {None, "body"}

\* a capture that returned the empty triple after the input, the response
\* wait, the selector wait, the idle wait, the content read, the fallback
\* navigation and the last read had all failed
C21_Witness ==
    /\ pc = "acq_returned"
    /\ {"searchInput", "timeout", "selector", "idle", "content", "goto2", "last_try"}
           \subseteq arg.failed
    /\ ret.state = "returned"
    /\ ret.captured = 0
    /\ ret.search_results_html = <<>>
    /\ ret.xhr_response_text = None

\* the waits of the interactive attempt between the commit and the read of
\* the markup, lines 390-414
InteractiveWaits == <<"response", "selector", "idle", "settle">>

\* C22 (original claim): the search URL is navigated to exactly when the
\* markup of the interactive attempt is empty or holds no results marker, and
\* before it reads the markup the fallback has repeated the wait sequence of
\* the interactive attempt: the wait for the API response, the wait for the
\* results container, the idle-network wait, the settle delay.
C22_DirectUrlFallback ==
    /\ pc \in {"acq_return", "acq_returned"} =>
          (arg.nav2 <=> (arg.html1 = <<>> \/ ~has_article(arg.html1)))
    /\ pc = "acq_content2" => arg.waits2 = InteractiveWaits

\* C23: in every run of _capture_xhr_request the request observer is
\* installed before the search field is filled and before Enter is pressed,
\* and every search-API request the page issues after the commit, whenever it
\* comes, is bound to captured.
C23_ObserverBeforeInteraction ==
    /\ []((arg.filled \/ arg.committed) => arg.handler)
    /\ [][arg'.after_commit > arg.after_commit =>
              arg'.captured = arg'.requests]_vars
    /\ []((pc = "acq_returned" /\ arg.after_commit > 0) => ret.captured # 0)

\* a capture returned the request the page issued after the commit
C23_Witness ==
    /\ pc = "acq_returned"
    /\ arg.committed
    /\ arg.after_commit = 1
    /\ arg.requests = 1
    /\ ret.captured = 1

\* C29 (original claim): once a search-API request has been captured during
\* one run of _capture_xhr_request, a later matching request of the same run
\* (for instance one issued by the direct-URL navigation) neither replaces
\* nor alters the captured request.
C29_CapturedImmutable ==
    [][arg.state = "capture" /\ arg.captured # 0 =>
          arg'.captured = arg.captured]_vars

(***************************************************************************)
(* Download mode: the loop of search_and_download over the records         *)
(***************************************************************************)
\* the most records a query hands to the download loop
MaxDownloads == 3

\* how "await client.get(detail_url)" and the reading of the detail page can
\* end in _fetch_detail_and_pdf (lines 670-696)
DetailOutcomes == {"pdf_url", "no_pdf_link", "status_error", "connect_error"}

\* how _download_pdf can end (lines 698-717)
PdfOutcomes == {"saved", "status_error", "connect_error"}

\* _fetch_detail_and_pdf: the PDF URL, None, or the exception that leaves it;
\* only the status is tested, the request itself is in no try block
fetch_detail_and_pdf(outcome) ==
    CASE outcome = "pdf_url" -> [pdf_url |-> "pdf", exc |-> None]
      [] outcome = "connect_error" -> [pdf_url |-> None, exc |-> "httpx.ConnectError"]
      [] OTHER -> [pdf_url |-> None, exc |-> None]

\* _download_pdf: whether the file was written; every failure is caught
download_pdf(outcome) == outcome = "saved"

\* lines 1157-1158: saved is empty and the loop is at its first record
download_frame(n) ==
    [state |-> "download", n |-> n, idx |-> 1, pdf_url |-> None, saved |-> <<>>,
     attempts |-> <<>>, exc |-> None]

DownloadInit ==
    /\ pc = "dl_detail"
    /\ \E n \in 1..MaxDownloads : arg = download_frame(n)
    /\ ret = IdleFrame
    /\ nx = <<>> /\ ny = <<>> /\ nres = NoNormResult
    /\ BatchIdle
    /\ q = IdleFrame /\ fa = IdleFrame

\* lines 1159-1168: the detail page of record idx is fetched
FetchDetail ==
    /\ pc = "dl_detail"
    /\ arg.idx <= arg.n
    /\ \E outcome \in DetailOutcomes :
          LET r == fetch_detail_and_pdf(outcome)
              f == [arg EXCEPT !.attempts = Append(@, [idx |-> arg.idx, detail |-> outcome])]
          IN IF r.exc # None
             THEN /\ arg' = [f EXCEPT !.exc = r.exc]
                  /\ pc' = "dl_return"
             ELSE IF r.pdf_url = None
             THEN /\ arg' = [f EXCEPT !.idx = @ + 1]
                  /\ pc' = "dl_detail"
             ELSE /\ arg' = [f EXCEPT !.pdf_url = r.pdf_url]
                  /\ pc' = "dl_pdf"
    /\ UNCHANGED <<normVars, batchVars, q, fa, ret>>

\* lines 1170-1190: the document of record idx is downloaded
DownloadPdf ==
    /\ pc = "dl_pdf"
    /\ \E outcome \in PdfOutcomes :
          arg' = [arg EXCEPT !.saved = IF download_pdf(outcome) THEN Append(@, arg.idx)
                                       ELSE @,
                             !.pdf_url = None,
                             !.idx = @ + 1]
    /\ pc' = "dl_detail"
    /\ UNCHANGED <<normVars, batchVars, q, fa, ret>>

\* lines 1192-1208: the loop is over and saved is returned, or the
\* exception of the loop leaves search_and_download
DownloadReturn ==
    /\ \/ pc = "dl_detail" /\ arg.idx > arg.n
       \/ pc = "dl_return"
    /\ ret' = IF arg.exc = None
              THEN [state |-> "returned", saved |-> arg.saved]
              ELSE [state |-> "raised", exc |-> arg.exc]
    /\ pc' = "dl_done"
    /\ UNCHANGED <<normVars, batchVars, q, fa, arg>>

DownloadNext == FetchDetail \/ DownloadPdf \/ DownloadReturn

SpecDownload == DownloadInit /\ [][DownloadNext]_vars

\* C26 (original claim): in download mode a transport error (an error status
\* or a connection failure) on one record's detail page or document fails and
\* skips that download only: every record of the query is still attempted
\* and the documents saved before the failure are returned.
C26_DownloadIsolation ==
    pc = "dl_done" =>
        /\ Len(arg.attempts) = arg.n
        /\ ret.state = "returned"
        /\ ret.saved = arg.saved

(***************************************************************************)
(* The end of the first pass: truncation and the exhaustive branch         *)
(***************************************************************************)
\* the most records the first pass hands to line 1144
MaxCollected == 3

\* the locals at line 1140: the collected records (numbered in collection
\* order), the total, whether replay_headers is bound
FinishInputs ==
    {[results |-> [k \in 1..n |-> k], total_count |-> t, replay_headers |-> rh] :
        n \in 0..MaxCollected, t \in {NoneInt, 0, 1, 2, 3, 150}, rh \in BOOLEAN}

FinishInit ==
    /\ pc = "fin_ready"
    /\ \E f \in FinishInputs, fr \in BOOLEAN, limit \in 1..MaxResults :
          arg = [f |-> f, full_recall |-> fr, max_results |-> limit]
    /\ ret = IdleFrame
    /\ nx = <<>> /\ ny = <<>> /\ nres = NoNormResult
    /\ BatchIdle
    /\ q = IdleFrame /\ fa = IdleFrame

\* lines 1140-1155 are run on the locals
FinishCall ==
    /\ pc = "fin_ready"
    /\ ret' = finish_step(arg.f, arg.full_recall, arg.max_results)
    /\ pc' = "fin_done"
    /\ UNCHANGED <<normVars, batchVars, q, fa, arg>>

FinishNext == FinishCall

SpecFinish == FinishInit /\ [][FinishNext]_vars

\* C28 (original claim): without full_recall the records returned are the
\* first max_results collected records, never more than max_results; with
\* full_recall the collected records are returned without truncation.
C28_Truncation ==
    (pc = "fin_done" /\ ret.next = "return") =>
        IF arg.full_recall
        THEN ret.results = arg.f.results
        ELSE /\ Len(ret.results) <= arg.max_results
             /\ ret.results = SubSeq(arg.f.results, 1, Len(ret.results))
             /\ Len(ret.results) = Len(arg.f.results) \/ Len(ret.results) = arg.max_results

\* C31 (original claim): the waiter for the search-API response is registered
\* before the commit, so a response that arrives after the commit and before
\* the timeout is observed, and the wait ends with no match only when no
\* such response arrived.
C31_ResponseWaiterFirst ==
    /\ arg.committed => "response" \in {arg.waits1[k] : k \in 1..Len(arg.waits1)}
    /\ arg.timed_out => arg.arrived = {}

\* C32 (original claim): when the page issues more than one search-API
\* request during one capture, the response text returned belongs to the
\* request returned as captured.
C32_RequestAndResponseAgree ==
    (pc = "acq_returned" /\ ret.xhr_response_text # None /\ ret.captured # 0) =>
        arg.xhr_of = ret.captured

\* the queries whose result has been recorded
Recorded == 1..Len(search_results)

\* C1: execute_searches produces exactly one result per query, in input
\* order; a query whose search raised, at whatever stage, is recorded with
\* success = FALSE and the error detail, and the queries after it are still
\* executed.
C1_BatchIsolation ==
    /\ pc \in {"loop", "calc", "done"} => Len(search_results) = qi
    /\ pc \in {"calc", "done"} => /\ qi = Len(queries)
                                  /\ Len(hist) = Len(queries)
    /\ \A k \in Recorded :
          /\ search_results[k].query_index = k
          /\ search_results[k].query = queries[k]
          /\ hist[k].raised # None =>
                 /\ ~search_results[k].success
                 /\ search_results[k].error = hist[k].raised
                 /\ search_results[k].found_patents = <<>>

\* a batch whose first query raised and whose second query was still
\* executed and returned
C1_Witness ==
    /\ pc = "done"
    /\ Len(queries) >= 2
    /\ hist[1].raised # None
    /\ ~search_results[1].success
    /\ hist[2].raised = None
    /\ search_results[2].success

\* C6: a query that met a response carrying the user_error marker is
\* recorded with success = FALSE and an error detail, never as a successful
\* query.
C6_SyntaxRejection ==
    \A k \in Recorded :
        hist[k].user_error =>
            /\ ~search_results[k].success
            /\ search_results[k].error # None

\* C7: a query that met the zero-result JSON, met no failure of the browser
\* or the client, and got no record from any other tier is recorded with
\* success = TRUE, parsed_results = 0 and no error, and the report has
\* found = FALSE for it.
C7_ZeroResults ==
    \A k \in Recorded :
        (hist[k].zero_json /\ hist[k].env_fault = "none" /\ hist[k].first_count = 0) =>
            /\ hist[k].raised = None
            /\ search_results[k].success
            /\ search_results[k].error = None
            /\ search_results[k].parsed_results = 0
            /\ search_results[k].found_patents = <<>>
            /\ pc = "done" => ~report.query_details[k].found

\* the report of a query that met only the zero-result JSON
C7_Witness ==
    /\ pc = "done"
    /\ Len(search_results) = 1
    /\ hist[1].zero_json /\ hist[1].env_fault = "none" /\ hist[1].first_count = 0
    /\ hist[1].reached_finish
    /\ search_results[1].success
    /\ search_results[1].parsed_results = 0
    /\ ~report.query_details[1].found

\* C10: a query run with full_recall whose first pass reports a total
\* greater than the number of records it holds (zero included) has
\* _fetch_all_results invoked, with the target as its target_patent.
C10_PaginationWithTarget ==
    \A k \in 1..Len(hist) :
        (full_recall /\ hist[k].reached_finish /\ hist[k].first_total # NoneInt
                     /\ hist[k].first_total > hist[k].first_count) =>
            /\ hist[k].paginated
            /\ hist[k].pag_target # NoneStr
            /\ RuleNormalize(hist[k].pag_target) = RuleNormalize(analysis_target)

\* no two records of the list share a detail_url
NoDuplicateUrl(records) ==
    \A i \in 1..Len(records) : \A j \in 1..Len(records) :
        records[i].detail_url = records[j].detail_url => i = j

\* search_and_download has returned its record list for the current query
QueryReturned == pc = "record" /\ q.state = "running" /\ q.returned /\ q.exc = None

\* C11 (original claim): the record list returned for a query never holds
\* two records with the same detail_url, whichever tiers and merges
\* contributed to it.
C11_NoDuplicateDetailUrl ==
    QueryReturned => NoDuplicateUrl(q.results)

\* list a is an initial segment of list b
IsPrefix(a, b) == Len(a) <= Len(b) /\ SubSeq(b, 1, Len(a)) = a

\* C12 (original claim): when the first pass got at least one record from a
\* JSON body, neither _parse_results_from_html nor _parse_results_from_dom
\* runs for that query, and the returned list (absent exhaustive paging)
\* starts with the structured records.
C12_TierPrecedence ==
    (q.state = "running" /\ q.structured # <<>>) =>
        /\ ~q.html_invoked
        /\ ~q.dom_invoked
        /\ (QueryReturned /\ ~hist[qi].paginated) =>
               IsPrefix(truncate(q.structured, max_results), q.results)

\* C14 (original claim): during exhaustive pagination no page is requested
\* after a page request that failed (status >= 400 or an exception) or that
\* gave no parseable record.
C14_FailedOrEmptyPageStops ==
    fa.state # "idle" =>
        \A k \in 1..Len(fa.pages) :
            (fa.pages[k].kind # "ok" \/ fa.pages[k].records = <<>>) =>
                Len(fa.requests) = k

\* the records of the logged pages, in page order
RECURSIVE RecordsOfPages(_)
RecordsOfPages(pages) ==
    IF pages = <<>> THEN <<>>
    ELSE Head(pages).records \o RecordsOfPages(Tail(pages))

\* C15: when exhaustive pagination stopped at a failed page request, the
\* query returns without raising and its records are those of all pages
\* fetched before the failure; unless closing the browser fails afterwards,
\* the query is recorded with success = TRUE.
C15_PartialResultsKept ==
    /\ (pc \in {"teardown", "record"} /\ q.state = "running"
           /\ hist[qi].pag_outcome = "error" /\ hist[qi].env_fault = "none") =>
          /\ q.returned /\ q.exc = None
          /\ q.results = RecordsOfPages(q.page_log)
    /\ \A k \in Recorded :
          (hist[k].pag_outcome = "error" /\ hist[k].env_fault = "none") =>
              search_results[k].success

\* a query whose second page request failed returns the record of the first
C15_Witness ==
    /\ pc = "record" /\ q.state = "running"
    /\ hist[qi].pag_outcome = "error" /\ hist[qi].env_fault = "none"
    /\ Len(q.page_log) = 2
    /\ q.page_log[1].kind = "ok" /\ q.page_log[2].kind # "ok"
    /\ Len(q.results) >= 1
    /\ q.returned

\* C16 (original claim): a query for which the browser engine fails to start
\* aborts the run: no later query is executed, its failure is not recorded
\* as an ordinary result and no report is made; a query that raised for any
\* other reason is recorded and does not abort the run.
C16_ResourceExhaustionFatal ==
    \A k \in 1..Len(hist) :
        /\ hist[k].env_fault = "launch" =>
               /\ Len(hist) = k
               /\ Len(search_results) < k
               /\ report = NoReport
        /\ (hist[k].raised # None /\ hist[k].env_fault # "launch" /\ k \in Recorded) =>
               ~search_results[k].success

\* C17 (original claim): between the end of a query and the start of the
\* next one the inter-query delay elapses, whether the earlier query
\* returned or raised, in both evaluators.
C17_InterQueryDelay ==
    \A k \in 2..Len(hist) : hist[k - 1].slept

\* no query is between the creation of its browser and the end of its
\* teardown
BetweenQueries == pc \in {"start", "loop", "launch", "record", "calc", "done"}

MarkupTiers == {"xhr_html", "page_html", "direct_url", "dom"}

\* C25 (original claim): when the records search_and_download returns for a
\* query were produced by the HTML or the DOM parser, the total returned
\* with them is None.
C25_TotalOnlyFromStructured ==
    (QueryReturned /\ ~hist[qi].paginated /\ q.results # <<>>
        /\ q.source \in MarkupTiers) =>
        q.total_count = NoneInt

\* C27: every query terminates.  The expiry of a bounded wait makes its tier
\* count as empty without an exception being raised, and every execution of
\* search_and_download that was started reaches the end of its teardown and
\* hands control back to the caller.
C27_QueryTerminates ==
    /\ []((q.state = "running" /\ q.expired # {}) => q.exc # "TimeoutError")
    /\ (pc = "launch") ~> (pc = "record")

\* a query returned after the wait of the direct-URL tier and the wait of
\* the DOM tier had both expired
C27_Witness ==
    /\ QueryReturned
    /\ q.expired = {"direct_url", "dom"}
    /\ q.results = <<>>

\* the place of a tier in the chain of the first pass
TierRank(tier) ==
    CASE tier = "xhr" -> 1
      [] tier = "replay" -> 2
      [] tier = "page_html" -> 3
      [] tier = "direct_url" -> 4
      [] tier = "dom" -> 5

\* C30: within one query the tiers of the first pass run in the order
\* browser response, replay of the captured request, captured page markup,
\* direct-URL page markup, live DOM; a tier runs only when no earlier tier
\* has given a record, and no tier runs twice.
C30_FallbackChainOrder ==
    q.state = "running" =>
        \A i \in 1..Len(q.ran) :
            /\ q.ran[i].held = 0
            /\ \A j \in 1..Len(q.ran) :
                  i < j => TierRank(q.ran[i].tier) < TierRank(q.ran[j].tier)

\* all five tiers ran, in order, and only the last one gave a record
C30_Witness ==
    /\ pc = "paging"
    /\ [k \in 1..Len(q.ran) |-> q.ran[k].tier] =
           <<"xhr", "replay", "page_html", "direct_url", "dom">>
    /\ q.source = "dom"
    /\ q.results # <<>>

\* C33 (original claim): in exhaustive count-only mode, whatever the first
\* pass gave, search_and_download runs the full pagination or skips it and
\* returns; it never raises because replay_headers or the captured request
\* that the pagination needs is not set.
C33_PaginationPrerequisitesSet ==
    (q.state = "running" /\ full_recall) =>
        q.exc # "UnboundLocalError: replay_headers"

\* C34 (original claim): in exhaustive mode every record of the first pass is
\* still among the records returned after the full pagination (by
\* detail_url), whether the pagination fetched all pages, stopped early or
\* met an error on its first or on a later page.
C34_FirstPassKept ==
    (QueryReturned /\ hist[qi].paginated) =>
        \A i \in 1..Len(q.first_pass) :
            \E j \in 1..Len(q.results) :
                q.results[j].detail_url = q.first_pass[i].detail_url

\* C35: a query whose exhaustive pagination ended at a page matching the
\* target, and whose browser closed without failure afterwards, is recorded
\* as succeeded, holds an identifier that normalizes to the normalized
\* target, and is marked found = TRUE in the report.
C35_EarlyTerminationFound ==
    \A k \in Recorded :
        (hist[k].pag_outcome = "early" /\ hist[k].env_fault = "none") =>
            /\ search_results[k].success
            /\ \E j \in 1..Len(search_results[k].found_patents) :
                  normalize_patent_number(search_results[k].found_patents[j])
                      = normalize_patent_number(analysis_target)
            /\ pc = "done" => report.query_details[k].found

\* the report of a query whose pagination ended early on an identifier
\* written differently from the target
C35_Witness ==
    /\ pc = "done"
    /\ Len(search_results) = 1
    /\ hist[1].pag_outcome = "early" /\ hist[1].env_fault = "none"
    /\ hist[1].pag_target = analysis_target
    /\ ~In(analysis_target, search_results[1].found_patents)
    /\ report.query_details[1].found

\* the sum of the counts the page requests asked for
RECURSIVE SumNum(_)
SumNum(requests) ==
    IF requests = <<>> THEN 0 ELSE Head(requests).num + SumNum(Tail(requests))

\* C36: the k-th page request of _fetch_all_results starts at (k-1)*100 and
\* asks for min(100, knownTotal - offset) records, a count between 1 and
\* 100; the counts of a complete pagination (no early termination, no page
\* error) sum to knownTotal.
C36_PageRequests ==
    fa.state # "idle" =>
        /\ \A k \in 1..Len(fa.requests) :
              /\ fa.requests[k].start = (k - 1) * 100
              /\ \/ fa.requests[k].num = 100 /\ fa.total_count - fa.requests[k].start >= 100
                 \/ /\ fa.requests[k].num = fa.total_count - fa.requests[k].start
                    /\ fa.requests[k].num < 100
              /\ fa.requests[k].num >= 1
              /\ fa.requests[k].num <= 100
        /\ (fa.state = "returned" /\ fa.outcome # "early" /\ FetchNoPageError) =>
              SumNum(fa.requests) = fa.total_count

\* a complete pagination of 250 records: requests of 100, 100 and 50
C36_Witness ==
    /\ fa.state = "returned" /\ fa.outcome # "early" /\ FetchNoPageError
    /\ fa.total_count = 250
    /\ Len(fa.requests) = 3
    /\ fa.requests[3] = [start |-> 200, num |-> 50]
    /\ SumNum(fa.requests) = 250

(***************************************************************************)
(* The paging block of search_and_download (lines 919-1138), loop by loop  *)
(***************************************************************************)
\* the largest max_results the paging loops are run with
MaxPaging == 100

\* page_try_max (line 980)
page_try_max == 10

\* range(10, 1000, 10) (line 1009): first offset, ceiling, step
offset_first == 10
offset_stop == 1000
offset_step == 10

\* a record known by its detail_url only; Link(0) has an empty detail_url
Link(k) == [detail_url |-> IF k = 0 THEN <<>> ELSE <<k>>]

\* the records a response or the page can hold when n records are
\* collected (collected records are numbered 1..n): none, one without
\* link, one collected before, one new, or two new after a repeated one
PagingItems(n) ==
    {<<>>, <<Link(0)>>, <<Link(1)>>, <<Link(n + 1)>>, <<Link(1), Link(n + 1), Link(n + 2)>>}

\* what client.get can answer in the parameter paging
PagingResponses(n) ==
    {[kind |-> "raise", items |-> <<>>], [kind |-> "status_error", items |-> <<>>],
     [kind |-> "empty_text", items |-> <<>>]}
        \cup {[kind |-> "ok", items |-> it] : it \in PagingItems(n)}

\* a mutation of paging_get_step: a response that adds nothing does not
\* end the loop
paging_get_step_repeat(results, resp, limit) ==
    CASE resp.kind = "raise" -> [results |-> results, new_added |-> 0, ended |-> "raise"]
      [] resp.kind \in {"status_error", "empty_text"} ->
            [results |-> results, new_added |-> 0, ended |-> "rejected"]
      [] OTHER ->
            LET merged == merge_new(results, resp.items, limit)
                new_added == Len(merged) - Len(results)
            IN [results |-> merged, new_added |-> new_added,
                ended |-> IF Len(merged) >= limit THEN "full" ELSE "no"]

\* the body of the page loop (lines 983-1006) and of the offset loop (lines
\* 1010-1031) on response resp: the merged records, the number added and
\* how the iteration ends the loop ("no": it does not)
paging_get_step(results, resp, limit) ==
    CASE resp.kind = "raise" -> [results |-> results, new_added |-> 0, ended |-> "raise"]
      [] resp.kind \in {"status_error", "empty_text"} ->
            [results |-> results, new_added |-> 0, ended |-> "rejected"]
      [] OTHER ->
            LET merged == merge_new(results, resp.items, limit)
                new_added == Len(merged) - Len(results)
            IN [results |-> merged, new_added |-> new_added,
                ended |-> IF new_added = 0 THEN "no_new"
                          ELSE IF Len(merged) >= limit THEN "full" ELSE "no"]

\* the locals of the paging block; loop names the loop that runs or has
\* just ended, iters counts its iterations, ended tells how it ended; page_no and
\* start_offset are read inside their loops only
paging_frame ==
    [max_results |-> 0, captured |-> FALSE, results |-> <<>>,
     page_no |-> 0, start_offset |-> 0, loop |-> "none", iters |-> 0, ended |-> "no"]

PagingInit ==
    /\ pc = "pg_start"
    /\ \E limit \in {1, 2, MaxPaging}, n \in 0..1, cap \in BOOLEAN :
          arg = [paging_frame EXCEPT !.max_results = limit, !.captured = cap,
                                     !.results = [k \in 1..n |-> Link(k)]]
    /\ ret = IdleFrame
    /\ nx = <<>> /\ ny = <<>> /\ nres = NoNormResult
    /\ BatchIdle
    /\ q = IdleFrame /\ fa = IdleFrame

PagingUnchanged == UNCHANGED <<normVars, batchVars, q, fa, ret>>

\* lines 920-924: the block is entered with fewer than max_results
\* records; the parameter paging needs a captured search-API request
PagingEnter ==
    /\ pc = "pg_start"
    /\ pc' = IF Len(arg.results) >= arg.max_results THEN "pg_done"
             ELSE IF arg.captured THEN "pg_first" ELSE "pg_scroll_check"
    /\ arg' = arg
    /\ PagingUnchanged

\* lines 964-977: the captured request once more with the largest num; a
\* failure is ignored
FirstRequest ==
    /\ pc = "pg_first"
    /\ \E resp \in PagingResponses(Len(arg.results)) :
          arg' = [arg EXCEPT !.results = IF resp.kind = "ok"
                                         THEN merge_new(@, resp.items, arg.max_results)
                                         ELSE @]
    /\ pc' = "pg_page_check"
    /\ PagingUnchanged

\* line 981: the page loop is entered with fewer than max_results records
PageCheck ==
    /\ pc = "pg_page_check"
    /\ IF Len(arg.results) < arg.max_results
       THEN /\ pc' = "pg_page"
            /\ arg' = [arg EXCEPT !.page_no = 2, !.loop = "page", !.iters = 0, !.ended = "no"]
       ELSE /\ pc' = "pg_offset_check"
            /\ arg' = [arg EXCEPT !.loop = "page", !.iters = 0, !.ended = "skipped"]
    /\ PagingUnchanged

\* lines 982-1006: one iteration of for page_no in range(2, page_try_max + 1)
PageStep ==
    /\ pc = "pg_page"
    /\ \E resp \in PagingResponses(Len(arg.results)) :
          LET step == paging_get_step(arg.results, resp, arg.max_results)
              last == arg.page_no + 1 > page_try_max
          IN /\ arg' = [arg EXCEPT !.results = step.results,
                                   !.iters = @ + 1,
                                   !.page_no = IF step.ended = "no" /\ ~last THEN @ + 1 ELSE 0,
                                   !.ended = IF step.ended = "no" /\ last
                                             THEN "exhausted" ELSE step.ended]
             /\ pc' = IF step.ended = "no" /\ ~last THEN "pg_page" ELSE "pg_offset_check"
    /\ PagingUnchanged

\* line 1008: the offset loop is entered with fewer than max_results records
OffsetCheck ==
    /\ pc = "pg_offset_check"
    /\ IF Len(arg.results) < arg.max_results
       THEN /\ pc' = "pg_offset"
            /\ arg' = [arg EXCEPT !.start_offset = offset_first, !.loop = "offset", !.iters = 0, !.ended = "no"]
       ELSE /\ pc' = "pg_scroll_check"
            /\ arg' = [arg EXCEPT !.loop = "offset", !.iters = 0, !.ended = "skipped"]
    /\ PagingUnchanged

\* lines 1009-1031: one iteration of for start_offset in range(10, 1000, 10)
OffsetStep ==
    /\ pc = "pg_offset"
    /\ \E resp \in PagingResponses(Len(arg.results)) :
          LET step == paging_get_step(arg.results, resp, arg.max_results)
              last == arg.start_offset + offset_step >= offset_stop
          IN /\ arg' = [arg EXCEPT !.results = step.results,
                                   !.iters = @ + 1,
                                   !.start_offset = IF step.ended = "no" /\ ~last
                                                    THEN @ + offset_step ELSE 0,
                                   !.ended = IF step.ended = "no" /\ last
                                             THEN "exhausted" ELSE step.ended]
             /\ pc' = IF step.ended = "no" /\ ~last THEN "pg_offset" ELSE "pg_scroll_check"
    /\ PagingUnchanged

\* collect_from_current_page (lines 1035-1055) when the page parses to more:
\* the records with a link not seen before are appended, up to the limit
collect_from_current_page(results, more, limit) == merge_new(results, more, limit)

\* what one iteration of the scroll loop can meet: the scroll raises, the
\* wait after it raises, or the page is collected
ScrollEvents(n) ==
    {[kind |-> "scroll_raise", items |-> <<>>], [kind |-> "wait_raise", items |-> <<>>]}
        \cup {[kind |-> "ok", items |-> it] : it \in PagingItems(n)}

\* the body of the scroll loop (lines 1060-1072) and its loop condition
scroll_step(results, ev, limit) ==
    IF ev.kind # "ok"
    THEN [results |-> results, new_added |-> 0, ended |-> "raise"]
    ELSE LET merged == collect_from_current_page(results, ev.items, limit)
             added == Len(merged) - Len(results)
         IN [results |-> merged, new_added |-> added,
             ended |-> IF added = 0 /\ Len(merged) = Len(results) THEN "no_new"
                       ELSE IF Len(merged) >= limit THEN "full" ELSE "no"]

\* line 1059: while len(results) < max_results
ScrollCheck ==
    /\ pc = "pg_scroll_check"
    /\ IF Len(arg.results) < arg.max_results
       THEN /\ pc' = "pg_scroll"
            /\ arg' = [arg EXCEPT !.loop = "scroll", !.iters = 0, !.ended = "no"]
       ELSE /\ pc' = "pg_next_check"
            /\ arg' = [arg EXCEPT !.loop = "scroll", !.iters = 0, !.ended = "skipped"]
    /\ PagingUnchanged

ScrollStep ==
    /\ pc = "pg_scroll"
    /\ \E ev \in ScrollEvents(Len(arg.results)) :
          LET step == scroll_step(arg.results, ev, arg.max_results)
          IN /\ arg' = [arg EXCEPT !.results = step.results,
                                   !.iters = @ + 1,
                                   !.ended = step.ended]
             /\ pc' = IF step.ended = "no" THEN "pg_scroll" ELSE "pg_next_check"
    /\ PagingUnchanged

\* what one iteration of the next-page loop can meet: no next-page control,
\* a click that fails, a navigation that raises, or the next page collected
\* (again holds what the page shows after the extra scroll)
NextEvents(n) ==
    {[kind |-> k, items |-> <<>>, again |-> <<>>] : k \in {"no_locator", "click_fail", "raise"}}
        \cup {[kind |-> "ok", items |-> it, again |-> ag] :
                 it \in PagingItems(n), ag \in {<<>>, <<Link(1)>>, <<Link(n + 1)>>}}

\* the body of the next-page loop (lines 1091-1138) and its loop condition
next_step(results, ev, limit) ==
    IF ev.kind # "ok"
    THEN [results |-> results, new_added |-> 0, ended |-> ev.kind]
    ELSE LET merged == collect_from_current_page(results, ev.items, limit)
             added == Len(merged) - Len(results)
             merged2 == IF added = 0
                        THEN collect_from_current_page(merged, ev.again, limit)
                        ELSE merged
             added2 == Len(merged2) - Len(merged)
         IN [results |-> merged2, new_added |-> added + added2,
             ended |-> IF added = 0 /\ added2 = 0 THEN "no_new"
                       ELSE IF Len(merged2) >= limit THEN "full" ELSE "no"]

\* line 1090: while len(results) < max_results
NextCheck ==
    /\ pc = "pg_next_check"
    /\ IF Len(arg.results) < arg.max_results
       THEN /\ pc' = "pg_next"
            /\ arg' = [arg EXCEPT !.loop = "next", !.iters = 0, !.ended = "no"]
       ELSE /\ pc' = "pg_done"
            /\ arg' = [arg EXCEPT !.loop = "next", !.iters = 0, !.ended = "skipped"]
    /\ PagingUnchanged

NextStep ==
    /\ pc = "pg_next"
    /\ \E ev \in NextEvents(Len(arg.results)) :
          LET step == next_step(arg.results, ev, arg.max_results)
          IN /\ arg' = [arg EXCEPT !.results = step.results,
                                   !.iters = @ + 1,
                                   !.ended = step.ended]
             /\ pc' = IF step.ended = "no" THEN "pg_next" ELSE "pg_done"
    /\ PagingUnchanged

PagingNext ==
    \/ PagingEnter \/ FirstRequest \/ PageCheck \/ PageStep \/ OffsetCheck \/ OffsetStep
    \/ ScrollCheck \/ ScrollStep \/ NextCheck \/ NextStep

SpecPaging == PagingInit /\ [][PagingNext]_vars

\* the paging block, every step of which is eventually taken: each await
\* of the loops ends, by its result, its exception or its timeout
SpecPagingLive == PagingInit /\ [][PagingNext]_vars /\ WF_vars(PagingNext)

\* the links of the collected records
seen_of(results) == {results[k].detail_url : k \in 1..Len(results)}

\* an iteration after which the same loop goes on
LoopGoesOn == pc' = pc /\ pc \in {"pg_page", "pg_offset", "pg_scroll", "pg_next"}

\* C37: the paging block ends; an iteration of one of its four loops after
\* which the loop goes on has added a record whose detail_url was not seen
\* before; no loop runs more than max_results iterations, the page loop no
\* more than 9 and the offset loop no more than 99.
C37_PagingTerminates ==
    /\ [](pc \in {"pg_page", "pg_offset", "pg_scroll", "pg_next", "pg_page_check",
                  "pg_offset_check", "pg_scroll_check", "pg_next_check", "pg_done"} =>
             /\ arg.iters <= arg.max_results
             /\ arg.loop = "page" => arg.iters <= 9
             /\ arg.loop = "offset" => arg.iters <= 99)
    /\ [][LoopGoesOn =>
             /\ arg'.iters = arg.iters + 1
             /\ Len(arg'.results) > Len(arg.results)
             /\ SubSeq(arg'.results, 1, Len(arg.results)) = arg.results
             /\ \E k \in Len(arg.results) + 1..Len(arg'.results) :
                   /\ arg'.results[k].detail_url # <<>>
                   /\ arg'.results[k].detail_url \notin seen_of(arg.results)]_vars
    /\ <>(pc = "pg_done")

\* the offset loop has issued its 99 requests and the page loop before it
\* its 9
C37_Witness ==
    /\ pc = "pg_scroll_check"
    /\ arg.loop = "offset" /\ arg.iters = 99 /\ arg.ended = "exhausted"
    /\ arg.max_results = MaxPaging
    /\ Len(arg.results) < arg.max_results

\* the page loop ended because the server refused a page request (an error
\* status, an empty body) or the request itself failed
PageParametersRejected == arg.loop = "page" /\ arg.ended \in {"rejected", "raise"}

\* C38 (original claim): the offset loop is entered only after the server
\* rejected the page parameters; it asks for the offsets 10, 20, ... below
\* 1000, and goes on only after a response that added a new record.
C38_OffsetLastResort ==
    /\ [](pc = "pg_offset" =>
             /\ arg.start_offset = offset_first + offset_step * arg.iters
             /\ arg.start_offset < 1000)
    /\ [][(pc = "pg_offset_check" /\ pc' = "pg_offset") => PageParametersRejected]_vars
    /\ [][(pc = "pg_offset" /\ pc' = "pg_offset") =>
             /\ arg'.start_offset = arg.start_offset + 10
             /\ Len(arg'.results) > Len(arg.results)]_vars

\* the containers that have a title/link anchor with a link
WithLink(articles) == SelectSeq(articles, LAMBDA a : a.anchor /\ a.href # <<>>)

\* C39 (original claim): on the same containers the HTML tier and the DOM
\* tier give the same records: one record for each container that has a
\* title/link anchor with a link, in order, and none for the others.
C39_TiersAgree ==
    (pc = "tier_done" /\ arg.tier \in {"html", "dom"}) =>
        /\ ret.results = IF arg.tier = "html" THEN parse_results_from_dom(arg.input)
                         ELSE parse_results_from_html(arg.input)
        /\ Len(ret.results) = Len(WithLink(arg.input))
        /\ \A k \in 1..Len(ret.results) :
              ret.results[k].publication_number = strip(WithLink(arg.input)[k].pub)

\* C40: a report is well-formed: queries_found_patent <= successful_queries
\* <= total_queries, the two rates lie in [0, 1], query_details has one
\* entry for each search result, in the same order, and found is FALSE for
\* every failed query.
C40_ReportWellFormed ==
    pc = "done" =>
        /\ report.queries_found_patent <= report.successful_queries
        /\ report.successful_queries <= report.total_queries
        /\ report.successful_queries
              = Cardinality({k \in 1..Len(search_results) : search_results[k].success})
        /\ report.seed_recall_rate.den > 0
        /\ report.seed_recall_rate.num >= 0
        /\ report.seed_recall_rate.num <= report.seed_recall_rate.den
        /\ report.success_rate.num >= 0
        /\ report.success_rate.num <= report.success_rate.den
        /\ Len(report.query_details) = Len(search_results)
        /\ \A k \in 1..Len(search_results) :
              /\ report.query_details[k].query_index = search_results[k].query_index
              /\ ~search_results[k].success => ~report.query_details[k].found

\* the report of a failed query followed by one that found the target
C40_Witness ==
    /\ pc = "done"
    /\ Len(search_results) = 2
    /\ ~search_results[1].success /\ search_results[2].success
    /\ ~report.query_details[1].found /\ report.query_details[2].found
    /\ report.queries_found_patent = 1 /\ report.successful_queries = 1
    /\ report.total_queries = 2

====
